---- MODULE Spec2Model ----
(***************************************************************************)
(* A model of the UniFlow service: the policy engine (PolicyConfig,        *)
(* PolicyManager), the server start-up that depends on it, the wallet      *)
(* service with the custody boundary, and pool discovery of the Uniswap V4 *)
(* mint service.                                                           *)
(***************************************************************************)
EXTENDS Integers, Sequences, FiniteSets, TLC

VARIABLES
    env,            \* process.env: PRIVY_SIGNER_ID, PRIVY_POLICY_ID, credentials
    remote,         \* the remote policy store (api.privy.io/v1/policies)
    posted,         \* the bodies POSTed to the remote policy store, in order
    policyIds,      \* PolicyManager.policyIds
    initialized,    \* PolicyManager.initialized
    pmPc,           \* where PolicyManager.initialize is suspended
    initResult,     \* what the last call of initialize returned
    fetched,        \* the policy the last call of initialize fetched
    serverPc,       \* server.ts: where the process is in its life
    exitCode,       \* <<>> while the process runs, <<code>> once it exited
    walletService,  \* server.ts walletService: None, or the service's policyIds
    routes,         \* whether the /api router is registered on the app
    listening,      \* whether app.listen was called (server is defined)
    lastServed,     \* the last /api request a route handler served
    response,       \* the request and the result of the last service call
    sessions,       \* WalletService.sessions
    custody,        \* the custody service: per external user, what it holds
    lastWalletCreate,   \* the last wallets().create call the custody got
    lastSendTransaction,\* the last sendTransaction call the custody got
    sendTransactionCalls, \* how often the transact that made it made that call
    botSessions,    \* the Telegram bot's sessions map
    tokenInfoCache, \* UniswapV4MintService.tokenInfoCache
    viemClients,    \* UniswapV4MintService.viemClients: the chains with a client
    pools,          \* the chain: the (fee, tickSpacing) keys at which a pool exists
    discoverPc,     \* discoverPool: "idle", "tokenInfo", "probe" or "done"
    params,         \* discoverPool: the request of the call
    currencies,     \* discoverPool: <<currency0, currency1>>
    tokenInfos,     \* discoverPool: <<token0Info, token1Info>>
    probes,         \* discoverPool: the pool keys handed to fetchPoolState
    reads,          \* what the chain did with the reads of each settled probe
    discovery,      \* discoverPool: the result returned
    previous,       \* the request and currencies of the call before this one
    mintPc,         \* mintPosition: "idle", "discover", "balances",
                    \* "allowance0", "allowance1" or "done"
    mint,           \* mintPosition: the call in progress and what it observed
    mintResult,     \* mintPosition: the result returned
    methodArgs,     \* the arguments of a call of one method of the service
    methodResult,   \* what that call returned and did
    pendingConfirmations,   \* transact.ts pendingConfirmations, by user
    messageHandlerSetup,    \* transact.ts messageHandlerSetup
    timers,         \* the armed setTimeout timers, in the order they fire
    nextTimeoutId,  \* the id the next setTimeout returns
    botTasks,       \* the bot's handlers suspended at an await
    lastMessage,    \* the last bot.sendMessage call
    updateId,       \* the number of Telegram updates the bot has received
    transcript      \* per prompt shown: what the chat saw since (history)

pmVars == <<policyIds, initialized, pmPc, initResult, fetched>>
policyVars == <<env, remote, posted, pmVars>>
processVars == <<serverPc, exitCode, walletService, routes, listening>>
serviceVars == <<lastServed, response, sessions, custody, lastWalletCreate,
                 lastSendTransaction, sendTransactionCalls, botSessions>>
mintVars == <<tokenInfoCache, viemClients>>
poolVars == <<pools, discoverPc, params, currencies, tokenInfos, probes,
              reads, discovery, previous>>
positionVars == <<mintPc, mint, mintResult>>
methodVars == <<methodArgs, methodResult>>
botVars == <<pendingConfirmations, messageHandlerSetup, timers, nextTimeoutId,
             botTasks, lastMessage, updateId, transcript>>
vars == <<policyVars, processVars, serviceVars, mintVars, poolVars,
          positionVars, methodVars, botVars>>

None == [none |-> TRUE]

\* ------------------------------------------------------------------------
\* Bounds of the model
\* ------------------------------------------------------------------------

\* A fetched policy has at most MaxRules rules of at most MaxConds conditions.
MaxRules == 2
MaxConds == 4
\* At most MaxCreates policies are created remotely in one behaviour.
MaxCreates == 2
\* At most MaxUpdates Telegram updates reach the bot in one behaviour.
MaxUpdates == 3

\* The external users that send requests.
Users == {"u1", "u2"}

\* ------------------------------------------------------------------------
\* Strings and addresses
\* ------------------------------------------------------------------------

\* String(n) of a non-negative integer: its decimal digits, most significant
\* first.
RECURSIVE String(_)
String(n) ==
    IF n < 10 THEN <<n>> ELSE Append(String(n \div 10), n % 10)

\* An address literal: its hex digits in lower case, and the letter case it
\* is written in.
Addr(hex, form) == [hex |-> hex, form |-> form]

\* viem getAddress: the EIP-55 checksummed writing of the same address.
getAddress(a) == [a EXCEPT !.form = "checksum"]

\* String.prototype.toLowerCase on an address.
toLowerCase(a) == [a EXCEPT !.form = "lower"]

\* ------------------------------------------------------------------------
\* constants.ts
\* ------------------------------------------------------------------------

UNISWAP_V4_DEPLOYMENTS == <<
    [ name |-> "ethereum", chainId |-> 1,
      poolManager |-> Addr("0x000000000004444c5dc75cb358380d2e3de08a90", "mixed"),
      positionManager |-> Addr("0xbd216513d74c8cf14cf4747e6aaa6420ff64ee9e", "lower"),
      stateView |-> Addr("0x7ffe42c4a5deea5b0fec41c94c136cf115597227", "lower") ],
    [ name |-> "bsc", chainId |-> 56,
      poolManager |-> Addr("0x28e2ea090877bf75740558f6bfb36a5ffee9e9df", "lower"),
      positionManager |-> Addr("0x7a4a5c919ae2541aed11041a1aeee68f1287f95b", "lower"),
      stateView |-> Addr("0xd13dd3d6e93f276fafc9db9e6bb47c1180aee0c4", "lower") ],
    [ name |-> "base", chainId |-> 8453,
      poolManager |-> Addr("0x498581ff718922c3f8e6a244956af099b2652b2b", "lower"),
      positionManager |-> Addr("0x7c5f5a4bbd8fd63184577525326123b519429bdc", "lower"),
      stateView |-> Addr("0xa3c0c9b65bad0b08107aa264b0f3db444b867a71", "lower") ],
    [ name |-> "arbitrum", chainId |-> 42161,
      poolManager |-> Addr("0x360e68faccca8ca495c1b759fd9eee466db9fb32", "lower"),
      positionManager |-> Addr("0xd88f38f930b7952f2db2432cb002e7abbf3dd869", "lower"),
      stateView |-> Addr("0x76fd297e2d437cd7f76d50f01afe6160f86e9990", "lower") ],
    [ name |-> "unichain", chainId |-> 130,
      poolManager |-> Addr("0x1f98400000000000000000000000000000000004", "lower"),
      positionManager |-> Addr("0x4529a01c7a0410167c5740c487a8de60232617bf", "lower"),
      stateView |-> Addr("0x86e8631a016f9068c3f085faf484ee3f5fdee8f2", "lower") ] >>

\* ------------------------------------------------------------------------
\* v4-config.ts and the constants of the mint service
\* ------------------------------------------------------------------------

V4_CHAIN_CONFIGS ==
    [ c \in {1, 56, 8453, 42161, 130} |->
        CASE c = 1 ->
               [ chainId |-> 1, name |-> "Ethereum",
                 positionManagerAddress |-> Addr("0xbd216513d74c8cf14cf4747e6aaa6420ff64ee9e", "lower"),
                 poolManagerAddress |-> Addr("0x000000000004444c5dc75cb358380d2e3de08a90", "mixed") ]
          [] c = 56 ->
               [ chainId |-> 56, name |-> "BSC",
                 positionManagerAddress |-> Addr("0x7a4a5c919ae2541aed11041a1aeee68f1287f95b", "lower"),
                 poolManagerAddress |-> Addr("0x28e2ea090877bf75740558f6bfb36a5ffee9e9df", "lower") ]
          [] c = 8453 ->
               [ chainId |-> 8453, name |-> "Base",
                 positionManagerAddress |-> Addr("0xbd216513d74c8cf14cf4747e6aaa6420ff64ee9e", "lower"),
                 poolManagerAddress |-> Addr("0x000000000004444c5dc75cb358380d2e3de08a90", "mixed") ]
          [] c = 42161 ->
               [ chainId |-> 42161, name |-> "Arbitrum One",
                 positionManagerAddress |-> Addr("0xd88f38f930b7952f2db2432cb002e7abbf3dd869", "lower"),
                 poolManagerAddress |-> Addr("0x360e68faccca8ca495c1b759fd9eee466db9fb32", "lower") ]
          [] c = 130 ->
               [ chainId |-> 130, name |-> "Unichain",
                 positionManagerAddress |-> Addr("0xf969aee60879c54baaed9f3ed26147db216fd664", "lower"),
                 poolManagerAddress |-> Addr("0x00b036b58a818b1bc34d502d3fe730db729e62ac", "lower") ] ]

\* !V4_CHAIN_CONFIGS[chainId]
hasChainConfig(chainId) == chainId \in DOMAIN V4_CHAIN_CONFIGS

NATIVE_ETH_ADDRESS == Addr("0x0000000000000000000000000000000000000000", "lower")

\* ERC-20 tokens of the chain the requests name: their address in lower
\* case, and the metadata their contract answers with.
USDC == "0xa0b86991c6218b36c1d19d4a2e9eb0ce3606eb48"
WETH == "0xc02aaa39b223fe8d0a0e5c4f27ead9083c756cc2"

TokenMeta(hex) ==
    IF hex = USDC THEN [symbol |-> "USDC", decimals |-> 6]
    ELSE [symbol |-> "WETH", decimals |-> 18]

\* ------------------------------------------------------------------------
\* PolicyConfig (policyConfig.ts)
\* ------------------------------------------------------------------------

getChainAllowlistCondition ==
    [ field_source |-> "ethereum_transaction",
      field |-> "chain_id",
      operator |-> "in",
      value |-> [i \in 1..Len(UNISWAP_V4_DEPLOYMENTS) |->
                    String(UNISWAP_V4_DEPLOYMENTS[i].chainId)] ]

\* Object.values(...).flatMap(d => [poolManager, positionManager, stateView])
RECURSIVE flatMapContracts(_)
flatMapContracts(deployments) ==
    IF deployments = <<>> THEN <<>>
    ELSE << getAddress(Head(deployments).poolManager),
            getAddress(Head(deployments).positionManager),
            getAddress(Head(deployments).stateView) >>
         \o flatMapContracts(Tail(deployments))

getContractAllowlistCondition ==
    [ field_source |-> "ethereum_transaction",
      field |-> "to",
      operator |-> "in",
      value |-> flatMapContracts(UNISWAP_V4_DEPLOYMENTS) ]

\* '100000000000000000' (0.1 ETH in wei), as its decimal digits.
getValueLimitCondition ==
    [ field_source |-> "ethereum_transaction",
      field |-> "value",
      operator |-> "lte",
      value |-> [i \in 1..18 |-> IF i = 1 THEN 1 ELSE 0] ]

\* A rule of the earlier composition, one condition per rule.
getSingleConditionRules ==
    << [ name |-> "Chain Allowlist", method |-> "eth_sendTransaction",
         conditions |-> <<getChainAllowlistCondition>>, action |-> "ALLOW" ],
       [ name |-> "Contract Allowlist", method |-> "eth_sendTransaction",
         conditions |-> <<getContractAllowlistCondition>>, action |-> "ALLOW" ],
       [ name |-> "Value Limit", method |-> "eth_sendTransaction",
         conditions |-> <<getValueLimitCondition>>, action |-> "ALLOW" ] >>

getCompositeAllowRule ==
    [ name |-> "UniFlow Composite Security Rule",
      method |-> "eth_sendTransaction",
      conditions |-> << getChainAllowlistCondition,
                        getContractAllowlistCondition,
                        getValueLimitCondition >>,
      action |-> "ALLOW" ]

getPolicyDefinition_SeparateRules(ownerId) ==
    [ version |-> "1.0",
      name |-> "UniFlow Conservative Security Policy",
      chain_type |-> "ethereum",
      owner_id |-> ownerId,
      rules |-> getSingleConditionRules ]

getPolicyDefinition(ownerId) ==
    [ version |-> "1.0",
      name |-> "UniFlow Conservative Security Policy",
      chain_type |-> "ethereum",
      owner_id |-> ownerId,
      rules |-> <<getCompositeAllowRule>> ]

\* ------------------------------------------------------------------------
\* The remote policy store, as the policy engine reads it
\* ------------------------------------------------------------------------

PolicyId(n) == <<"policy", n>>

\* The identifier PRIVY_POLICY_ID pins, when it is set.
PinnedId == PolicyId(0)

SignerIds == {"signer-1", "signer-2"}

\* A condition and a rule of a fetched policy whose content is not the
\* expected one; validation reads only how many there are.
GenericCondition ==
    [ field_source |-> "ethereum_transaction", field |-> "chain_id",
      operator |-> "eq", value |-> String(1) ]

GenericRule(nConds) ==
    [ name |-> "rule", method |-> "eth_sendTransaction",
      conditions |-> [i \in 1..nConds |-> GenericCondition],
      action |-> "ALLOW" ]

\* The policies the store may hold under the pinned identifier: any owner,
\* any number of rules, any number of conditions in the first rule.
PolicyShapes ==
    { [ id |-> PinnedId, owner_id |-> o,
        rules |-> [i \in 1..nr |-> IF i = 1 THEN GenericRule(nc)
                                            ELSE GenericRule(1)] ] :
        o \in SignerIds, nr \in 1..MaxRules, nc \in 0..MaxConds }
    \cup { [ id |-> PinnedId, owner_id |-> o, rules |-> <<>> ] : o \in SignerIds }

\* ------------------------------------------------------------------------
\* PolicyManager
\* ------------------------------------------------------------------------

Ok == "ok"

\* rules[0]?.conditions?.length || 0
firstRuleConditionCount(rules) ==
    IF Len(rules) = 0 THEN 0 ELSE Len(rules[1].conditions)

\* validatePolicy without the owner check.
validatePolicy_NoOwnerCheck(policy) ==
    LET expected == getPolicyDefinition(env.signerId) IN
    IF env.signerId = "" THEN "PRIVY_SIGNER_ID environment variable is not set"
    ELSE IF Len(policy.rules) # Len(expected.rules)
        THEN "Policy rule count mismatch"
    ELSE IF firstRuleConditionCount(expected.rules)
                # firstRuleConditionCount(policy.rules)
        THEN "Policy condition count mismatch"
    ELSE Ok

\* validatePolicy without the condition-count check.
validatePolicy_NoConditionCheck(policy) ==
    LET expected == getPolicyDefinition(env.signerId) IN
    IF env.signerId = "" THEN "PRIVY_SIGNER_ID environment variable is not set"
    ELSE IF policy.owner_id # env.signerId THEN "Policy owner mismatch"
    ELSE IF Len(policy.rules) # Len(expected.rules)
        THEN "Policy rule count mismatch"
    ELSE Ok

\* validatePolicy: Ok, or the message of the error it throws.
validatePolicy(policy) ==
    LET expected == getPolicyDefinition(env.signerId) IN
    IF env.signerId = "" THEN "PRIVY_SIGNER_ID environment variable is not set"
    ELSE IF policy.owner_id # env.signerId THEN "Policy owner mismatch"
    ELSE IF Len(policy.rules) # Len(expected.rules)
        THEN "Policy rule count mismatch"
    ELSE IF firstRuleConditionCount(expected.rules)
                # firstRuleConditionCount(policy.rules)
        THEN "Policy condition count mismatch"
    ELSE Ok

Success(ids) == [success |-> TRUE, policyIds |-> ids]
Failure(msg) == [success |-> FALSE, error |-> msg]

\* initialize up to its first await: the environment checks, then the
\* request for the pinned policy or for a new one.
InitializeBegin ==
    /\ pmPc = "idle"
    /\ fetched' = None
    /\ IF env.signerId = ""
       THEN /\ initResult' = Failure("PRIVY_SIGNER_ID not configured")
            /\ pmPc' = "idle"
       ELSE IF ~env.credentials
       THEN /\ initResult' = Failure("Privy credentials not configured")
            /\ pmPc' = "idle"
       ELSE /\ initResult' = None
            /\ pmPc' = IF env.policyId # <<>> THEN "getPolicy" ELSE "createPolicy"
    /\ UNCHANGED <<policyIds, initialized>>

\* getPolicy resolved: the ids are stored, the policy is validated.
InitializeGetPolicyResolved ==
    /\ pmPc = "getPolicy"
    /\ remote # None
    /\ LET policy == remote
           verdict == validatePolicy(policy) IN
       /\ fetched' = policy
       /\ policyIds' = <<policy.id>>
       /\ IF verdict = Ok
          THEN /\ initialized' = TRUE
               /\ initResult' = Success(policyIds')
          ELSE /\ initialized' = initialized
               /\ initResult' = Failure(verdict)
    /\ pmPc' = "idle"

\* getPolicy rejected (no such policy, authentication, rate limit, network).
InitializeGetPolicyRejected ==
    /\ pmPc = "getPolicy"
    /\ \E msg \in {"Privy API authentication failed",
                   "Privy API rate limit exceeded",
                   "Privy API error"} :
          /\ (remote = None => msg = "Privy API error")
          /\ initResult' = Failure(msg)
    /\ pmPc' = "idle"
    /\ UNCHANGED <<policyIds, initialized, fetched>>

\* createPolicy resolved: the definition was POSTed and stored remotely
\* under a fresh identifier.
InitializeCreatePolicyResolved ==
    /\ pmPc = "createPolicy"
    /\ Len(posted) < MaxCreates
    /\ posted' = Append(posted, getPolicyDefinition(env.signerId))
    /\ policyIds' = <<PolicyId(Len(posted'))>>
    /\ initialized' = TRUE
    /\ initResult' = Success(policyIds')
    /\ pmPc' = "idle"
    /\ UNCHANGED fetched

InitializeCreatePolicyRejected ==
    /\ pmPc = "createPolicy"
    /\ \E msg \in {"Privy API authentication failed",
                   "Privy API rate limit exceeded",
                   "Privy API error"} :
          initResult' = Failure(msg)
    /\ pmPc' = "idle"
    /\ UNCHANGED <<policyIds, initialized, fetched, posted>>

getPolicyIds_Unchecked ==
    [threw |-> FALSE, value |-> policyIds]

\* getPolicyIds(): the ids, or the error it throws.
getPolicyIds ==
    IF ~initialized
    THEN [threw |-> TRUE, error |-> "PolicyManager not initialized"]
    ELSE [threw |-> FALSE, value |-> policyIds]

\* The owner of the remote store edits, deletes or restores the pinned policy.
RemotePolicyEdited ==
    /\ pmPc = "idle"
    /\ \E p \in PolicyShapes \cup {None} :
          /\ p # remote
          /\ remote' = p
    /\ UNCHANGED <<env, posted, pmVars, processVars, serviceVars, mintVars, poolVars,
                   positionVars, methodVars, botVars>>

\* ------------------------------------------------------------------------
\* The state before the server process and its services have done anything
\* ------------------------------------------------------------------------

NoSession == None
NoCall == None

ProcessNotStarted ==
    /\ serverPc = "boot"
    /\ exitCode = <<>>
    /\ walletService = None
    /\ routes = FALSE
    /\ listening = FALSE

ServiceIdle ==
    /\ lastServed = "none"
    /\ response = None
    /\ sessions = [u \in Users |-> NoSession]
    /\ custody = [u \in Users |-> "absent"]
    /\ lastWalletCreate = NoCall
    /\ lastSendTransaction = NoCall
    /\ sendTransactionCalls = 0
    /\ botSessions = [u \in Users |-> NoSession]
    /\ tokenInfoCache = {}
    /\ discoverPc = "idle"
    /\ params = None
    /\ currencies = <<>>
    /\ tokenInfos = <<>>
    /\ probes = <<>>
    /\ reads = <<>>
    /\ discovery = None
    /\ previous = None
    /\ mintPc = "idle"
    /\ mint = None
    /\ mintResult = None

BotIdle ==
    /\ pendingConfirmations = [u \in Users |-> None]
    /\ messageHandlerSetup = FALSE
    /\ timers = <<>>
    /\ nextTimeoutId = 1
    /\ botTasks = {}
    /\ lastMessage = None
    /\ updateId = 0
    /\ transcript = <<>>

ServiceEmpty ==
    /\ ServiceIdle
    /\ BotIdle
    /\ viemClients = {}
    /\ methodArgs = None
    /\ methodResult = None

\* ------------------------------------------------------------------------
\* The policy engine on its own: initialize called any number of times
\* ------------------------------------------------------------------------

Environments ==
    [ signerId : {"", "signer-1"},
      credentials : BOOLEAN,
      signerKey : BOOLEAN,
      policyId : {<<>>, PinnedId} ]

PolicyInit ==
    /\ env \in Environments
    /\ remote \in PolicyShapes \cup {None}
    /\ posted = <<>>
    /\ policyIds = <<>>
    /\ initialized = FALSE
    /\ pmPc = "idle"
    /\ initResult = None
    /\ fetched = None
    /\ ProcessNotStarted
    /\ ServiceEmpty
    /\ pools = {}

CallInitialize ==
    /\ InitializeBegin
    /\ UNCHANGED <<env, remote, posted, processVars, serviceVars, mintVars, poolVars,
                   positionVars, methodVars, botVars>>

GetPolicyResolved ==
    /\ InitializeGetPolicyResolved
    /\ UNCHANGED <<env, remote, posted, processVars, serviceVars, mintVars, poolVars,
                   positionVars, methodVars, botVars>>

GetPolicyRejected ==
    /\ InitializeGetPolicyRejected
    /\ UNCHANGED <<env, remote, posted, processVars, serviceVars, mintVars, poolVars,
                   positionVars, methodVars, botVars>>

CreatePolicyResolved ==
    /\ InitializeCreatePolicyResolved
    /\ UNCHANGED <<env, remote, processVars, serviceVars, mintVars, poolVars,
                   positionVars, methodVars, botVars>>

CreatePolicyRejected ==
    /\ InitializeCreatePolicyRejected
    /\ UNCHANGED <<env, remote, processVars, serviceVars, mintVars, poolVars,
                   positionVars, methodVars, botVars>>

PolicyNext ==
    \/ CallInitialize
    \/ GetPolicyResolved
    \/ GetPolicyRejected
    \/ CreatePolicyResolved
    \/ CreatePolicyRejected
    \/ RemotePolicyEdited

SpecPolicy == PolicyInit /\ [][PolicyNext]_vars

\* ------------------------------------------------------------------------
\* WalletService and the custody service (Privy users and wallets)
\* ------------------------------------------------------------------------

PrivyUserId(u) == <<"privy-user", u>>
WalletId(u) == <<"wallet", u>>
WalletAddress(u) == <<"wallet-address", u>>

Session(u) ==
    [userId |-> PrivyUserId(u), walletId |-> WalletId(u),
     walletAddress |-> WalletAddress(u)]

\* What the custody service answers to the calls of one connect:
\*   lookup: the user lookup answers, or fails with an error that is not 404
\*   user:   users().create answers a user, a user without id, or fails
\*   wallet: wallets().create answers a wallet, or fails
ConnectOutcomes ==
    [ lookup : {"answers", "error"},
      user : {"created", "no-id", "error"},
      wallet : {"created", "error"} ]

\* The wallets().create call of a connect: who made it and what it carried.
WalletCreateCall(by, u, signer, ids) ==
    [ by |-> by, owner |-> PrivyUserId(u), signer_id |-> signer,
      override_policy_ids |-> ids ]

\* The common shape of WalletService.connect and of the Telegram /connect
\* handler: look the user up, create the user on 404, reuse the embedded
\* wallet or create one with the signer and `ids` as override_policy_ids.
\* Gives the result and the custody's state and calls after it.
connectWith(by, u, ids, o) ==
    LET found == custody[u] # "absent"
        userOk == found \/ o.user = "created"
        afterUser == IF ~found /\ o.user = "created" THEN "user" ELSE custody[u]
        hasEmbeddedWalletId == afterUser = "wallet"
        creates == /\ o.lookup = "answers" /\ userOk
                   /\ ~hasEmbeddedWalletId /\ env.signerId # ""
        call == IF creates
                THEN WalletCreateCall(by, u, env.signerId, ids)
                ELSE lastWalletCreate
    IN
    IF o.lookup = "error"
        THEN [ success |-> FALSE, error |-> "PRIVY_ERROR",
               custody |-> custody, call |-> call ]
    ELSE IF ~found /\ o.user = "error"
        THEN [ success |-> FALSE, error |-> "PRIVY_ERROR",
               custody |-> custody, call |-> call ]
    ELSE IF ~found /\ o.user = "no-id"
        THEN [ success |-> FALSE, error |-> "WALLET_CREATION_FAILED",
               custody |-> custody, call |-> call ]
    ELSE IF hasEmbeddedWalletId
        THEN [ success |-> TRUE, error |-> "",
               custody |-> [custody EXCEPT ![u] = afterUser], call |-> call ]
    ELSE IF env.signerId = ""
        THEN [ success |-> FALSE,
               error |-> "PRIVY_SIGNER_ID environment variable is not configured",
               custody |-> [custody EXCEPT ![u] = afterUser], call |-> call ]
    ELSE IF o.wallet = "error"
        THEN [ success |-> FALSE, error |-> "PRIVY_ERROR",
               custody |-> [custody EXCEPT ![u] = afterUser], call |-> call ]
    ELSE [ success |-> TRUE, error |-> "",
           custody |-> [custody EXCEPT ![u] = "wallet"], call |-> call ]

\* this.policyIds of the constructed WalletService.
WalletServicePolicyIds == walletService.policyIds

\* A service call with what it was asked and what it returned.
Response(op, u, request, success, error) ==
    [ op |-> op, user |-> u, request |-> request, success |-> success,
      error |-> error ]

\* WalletService.connect(externalUserId)
connect(u, o) ==
    LET r == connectWith("WalletService", u, WalletServicePolicyIds, o) IN
    /\ response' = Response("connect", u, None, r.success, r.error)
    /\ custody' = r.custody
    /\ lastWalletCreate' = r.call
    /\ sessions' = IF r.success THEN [sessions EXCEPT ![u] = Session(u)]
                                ELSE sessions

\* Transaction parameters: the recipient, the value, the calldata, the chain.
TxParams(to, value, data, chainId) ==
    [to |-> to, value |-> value, data |-> data, chainId |-> chainId]

\* What the custody service answers to sendTransaction.
SendOutcomes == {"hash", "error"}

transact_WithoutSessionCheck(u, tx, outcome) ==
    LET call == [ walletId |-> WalletId(u),
                  caip2 |-> <<"eip155", tx.chainId>>,
                  to |-> tx.to, value |-> tx.value, data |-> tx.data ]
    IN IF outcome = "hash"
       THEN [success |-> TRUE, error |-> "", call |-> call, calls |-> <<call>>,
              hash |-> <<"0xhash">>]
       ELSE [success |-> FALSE, error |-> "TRANSACTION_FAILED", call |-> call,
             calls |-> <<call>>,
              hash |-> <<>>]

transact_RetriesOnce(u, tx, outcome) ==
    IF sessions[u] = NoSession
        THEN [success |-> FALSE, error |-> "SESSION_NOT_FOUND", call |-> NoCall,
              calls |-> <<>>,
              hash |-> <<>>]
    ELSE IF ~env.signerKey
        THEN [success |-> FALSE,
              error |-> "Server signing configuration is missing",
              call |-> NoCall, calls |-> <<>>,
              hash |-> <<>>]
    ELSE LET call == [ walletId |-> sessions[u].walletId,
                       caip2 |-> <<"eip155", tx.chainId>>,
                       to |-> tx.to, value |-> tx.value, data |-> tx.data ]
         IN IF outcome = "hash"
            THEN [success |-> TRUE, error |-> "", call |-> call,
                  calls |-> <<call>>,
              hash |-> <<"0xhash">>]
            ELSE [success |-> FALSE, error |-> "TRANSACTION_FAILED",
                  call |-> call, calls |-> <<call, call>>,
              hash |-> <<>>]

\* WalletService.transact: the result, and the sendTransaction call the
\* custody got (NoCall when none was made).
transact(u, tx, outcome) ==
    IF sessions[u] = NoSession
        THEN [success |-> FALSE, error |-> "SESSION_NOT_FOUND", call |-> NoCall,
              calls |-> <<>>,
              hash |-> <<>>]
    ELSE IF ~env.signerKey
        THEN [success |-> FALSE,
              error |-> "Server signing configuration is missing",
              call |-> NoCall, calls |-> <<>>,
              hash |-> <<>>]
    ELSE LET call == [ walletId |-> sessions[u].walletId,
                       caip2 |-> <<"eip155", tx.chainId>>,
                       to |-> tx.to, value |-> tx.value, data |-> tx.data ]
         IN IF outcome = "hash"
            THEN [success |-> TRUE, error |-> "", call |-> call,
                  calls |-> <<call>>,
              hash |-> <<"0xhash">>]
            ELSE [success |-> FALSE, error |-> "TRANSACTION_FAILED",
                  call |-> call, calls |-> <<call>>,
              hash |-> <<>>]

disconnect_KeepsSession(u) ==
    /\ response' = Response("disconnect", u, None, sessions[u] # NoSession, "")
    /\ sessions' = sessions

disconnect_ClearsAll(u) ==
    /\ response' = Response("disconnect", u, None, sessions[u] # NoSession, "")
    /\ sessions' = [v \in Users |-> NoSession]

\* WalletService.disconnect(externalUserId)
disconnect(u) ==
    /\ response' = Response("disconnect", u, None, sessions[u] # NoSession, "")
    /\ sessions' = [sessions EXCEPT ![u] = NoSession]

\* WalletService.getSession(externalUserId): undefined is NoSession.
getSession(u) == sessions[u]

\* WalletService.clearAllSessions()
clearAllSessions ==
    sessions' = [u \in Users |-> NoSession]

\* ------------------------------------------------------------------------
\* UniswapV4MintService: token metadata and approvals
\* ------------------------------------------------------------------------

\* The tokens approval requests name.
ApproveTokenInputs ==
    { Addr(USDC, "lower"), Addr(USDC, "checksum"), NATIVE_ETH_ADDRESS }

\* The chain ids requests name: a supported one and one that is not.
ChainInputs == {1, 31337}

\* What the chain answers to the symbol/decimals reads of a token.
TokenReadOutcomes == {"answers", "reverted", "timeout"}

\* The read failures the chain's client raises beyond those of
\* TokenReadOutcomes.
TokenReadFailures ==
    {"reverted", "invalid opcode", "not a contract", "timeout", "malformed"}

\* The message of the error a failed read raises, as its words.
ReadErrorMessage(outcome) ==
    CASE outcome = "reverted" ->
           <<"The", "contract", "function", "symbol", "reverted">>
      [] outcome = "invalid opcode" ->
           <<"VM", "error", "invalid", "opcode">>
      [] outcome = "not a contract" ->
           <<"The", "address", "is", "not", "a", "contract">>
      [] outcome = "timeout" ->
           <<"The", "request", "took", "too", "long", "to", "respond">>
      [] OTHER ->
           <<"Unexpected", "token", "in", "JSON", "at", "position", "0">>

\* message.includes(phrase), on words.
includes(message, phrase) ==
    \E i \in 1..(Len(message) - Len(phrase) + 1) :
        SubSeq(message, i, i + Len(phrase) - 1) = phrase

isContractError_RevertedOnly(message) ==
    includes(message, <<"reverted">>)

\* isContractError of getTokenInfo's catch.
isContractError(message) ==
    \/ includes(message, <<"reverted">>)
    \/ includes(message, <<"execution", "reverted">>)
    \/ includes(message, <<"invalid", "opcode">>)
    \/ includes(message, <<"not", "a", "contract">>)

getTokenInfo_KeyWithoutChain(tokenAddress, chainId, outcome) ==
    LET normalizedAddress == toLowerCase(tokenAddress)
        cacheKey == <<chainId, normalizedAddress>>
        client == viemClients \cup {chainId}
    IN
    IF normalizedAddress = NATIVE_ETH_ADDRESS
        THEN [ ok |-> TRUE, symbol |-> "ETH", decimals |-> 18,
               cache |-> tokenInfoCache, clients |-> viemClients ]
    ELSE IF \E k \in tokenInfoCache : k[2] = normalizedAddress
        THEN [ ok |-> TRUE, symbol |-> TokenMeta(normalizedAddress.hex).symbol,
               decimals |-> TokenMeta(normalizedAddress.hex).decimals,
               cache |-> tokenInfoCache, clients |-> viemClients ]
    ELSE IF outcome = "answers"
        THEN [ ok |-> TRUE, symbol |-> TokenMeta(normalizedAddress.hex).symbol,
               decimals |-> TokenMeta(normalizedAddress.hex).decimals,
               cache |-> tokenInfoCache \cup {cacheKey}, clients |-> client ]
    ELSE IF isContractError(ReadErrorMessage(outcome))
        THEN [ ok |-> FALSE, error |-> "Invalid token address",
               cache |-> tokenInfoCache, clients |-> client ]
    ELSE [ ok |-> FALSE, error |-> "Failed to fetch token info",
           cache |-> tokenInfoCache, clients |-> client ]

\* getTokenInfo: the info or the error thrown, with the cache and the chain
\* clients after it.
getTokenInfo(tokenAddress, chainId, outcome) ==
    LET normalizedAddress == toLowerCase(tokenAddress)
        cacheKey == <<chainId, normalizedAddress>>
        client == viemClients \cup {chainId}
    IN
    IF normalizedAddress = NATIVE_ETH_ADDRESS
        THEN [ ok |-> TRUE, symbol |-> "ETH", decimals |-> 18,
               cache |-> tokenInfoCache, clients |-> viemClients ]
    ELSE IF cacheKey \in tokenInfoCache
        THEN [ ok |-> TRUE, symbol |-> TokenMeta(normalizedAddress.hex).symbol,
               decimals |-> TokenMeta(normalizedAddress.hex).decimals,
               cache |-> tokenInfoCache, clients |-> viemClients ]
    ELSE IF outcome = "answers"
        THEN [ ok |-> TRUE, symbol |-> TokenMeta(normalizedAddress.hex).symbol,
               decimals |-> TokenMeta(normalizedAddress.hex).decimals,
               cache |-> tokenInfoCache \cup {cacheKey}, clients |-> client ]
    ELSE IF isContractError(ReadErrorMessage(outcome))
        THEN [ ok |-> FALSE, error |-> "Invalid token address",
               cache |-> tokenInfoCache, clients |-> client ]
    ELSE [ ok |-> FALSE, error |-> "Failed to fetch token info",
           cache |-> tokenInfoCache, clients |-> client ]

\* The amounts an approval request names.
AmountInputs == {"unlimited", "1"}

\* A bigint is written as its limbs of four decimal digits (base 10000),
\* most significant first; `rev` sequences carry them the other way round.
\* mulAdd: the limbs, least significant first, of m * n + a for the number n
\* that `rev` writes the same way.
RECURSIVE mulAdd(_, _, _)
mulAdd(rev, m, a) ==
    IF rev = <<>>
    THEN IF a = 0 THEN <<>>
         ELSE IF a < 10000 THEN <<a>>
         ELSE <<a % 10000>> \o mulAdd(<<>>, m, a \div 10000)
    ELSE LET v == Head(rev) * m + a IN
         <<v % 10000>> \o mulAdd(Tail(rev), m, v \div 10000)

reverse(seq) == [i \in 1..Len(seq) |-> seq[Len(seq) + 1 - i]]

\* The number that hexadecimal digits write (most significant first), four
\* digits at a time, as limbs, least significant first.
RECURSIVE fromHexDigits(_)
fromHexDigits(hex) ==
    IF Len(hex) = 0 THEN <<>>
    ELSE IF Len(hex) < 4
    THEN mulAdd(fromHexDigits(SubSeq(hex, 1, Len(hex) - 1)), 16, hex[Len(hex)])
    ELSE LET n == Len(hex)
             last4 == ((hex[n - 3] * 16 + hex[n - 2]) * 16 + hex[n - 1]) * 16
                      + hex[n]
         IN mulAdd(fromHexDigits(SubSeq(hex, 1, n - 4)), 65536, last4)

\* BigInt('0x...')
BigInt(hex) ==
    LET rev == fromHexDigits(hex) IN
    IF rev = <<>> THEN <<0>> ELSE reverse(rev)

\* Max uint256 for unlimited approvals: '0x' followed by 64 times 'f'.
MAX_UINT256 == [i \in 1..64 |-> 15]

\* The whole amounts that the decimal strings of requests write.
decimalValue(str) ==
    CASE str = "0" -> 0
      [] str = "1" -> 1
      [] str = "2" -> 2

RECURSIVE timesTenTo(_, _)
timesTenTo(rev, decimals) ==
    IF decimals = 0 THEN rev
    ELSE timesTenTo(mulAdd(rev, 10, 0), decimals - 1)

\* parseUnits(amount, decimals) for a whole amount
parseUnits(amount, decimals) ==
    LET rev == timesTenTo(mulAdd(<<>>, 1, decimalValue(amount)), decimals) IN
    IF rev = <<>> THEN <<0>> ELSE reverse(rev)

\* BigInt(MAX_UINT256)
MAX_UINT256_BigInt == BigInt(MAX_UINT256)

amountWei_ParseUnitsOnly(amount, decimals) ==
    IF amount = "unlimited" THEN <<0>> ELSE parseUnits(amount, decimals)

\* amount === 'unlimited' ? BigInt(MAX_UINT256) : parseUnits(amount, decimals)
amountWei(amount, decimals) ==
    IF amount = "unlimited"
    THEN MAX_UINT256_BigInt
    ELSE parseUnits(amount, decimals)

\* result.success && result.hash: the custody returned a transaction hash.
transactionSent_Always(result) == TRUE

transactionSent(result) == result.success /\ result.hash # <<>>

\* The V4ApprovalResult after transact returned.
ApprovalResult(u, request, result) ==
    IF transactionSent(result)
    THEN [ op |-> "approveToken", user |-> u, request |-> request,
           success |-> TRUE, error |-> "", txHash |-> result.hash ]
    ELSE Response("approveToken", u, request, FALSE,
                  IF result.error # "" THEN result.error
                  ELSE "Approval transaction failed")

\* approveToken(userId, {token, amount, chainId}, walletService)
approveToken(u, token, amount, chainId, read, send) ==
    LET request == [token |-> token, amount |-> amount, chainId |-> chainId] IN
    IF ~hasChainConfig(chainId)
    THEN /\ response' = Response("approveToken", u, request, FALSE,
                                 "Unsupported chain ID")
         /\ UNCHANGED <<lastSendTransaction, sendTransactionCalls, mintVars>>
    ELSE IF token = NATIVE_ETH_ADDRESS
    THEN /\ response' = Response("approveToken", u, request, FALSE,
                                 "Native ETH does not require approval")
         /\ UNCHANGED <<lastSendTransaction, sendTransactionCalls, mintVars>>
    ELSE LET tokenInfo == getTokenInfo(token, chainId, read)
             data == [ functionName |-> "approve",
                       spender |-> V4_CHAIN_CONFIGS[chainId].positionManagerAddress,
                       amount |-> amountWei(amount, tokenInfo.decimals) ]
             result == transact(u, TxParams(token, "0", data, chainId), send)
         IN
         /\ tokenInfoCache' = tokenInfo.cache
         /\ viemClients' = tokenInfo.clients
         /\ response' =
                IF tokenInfo.ok
                THEN ApprovalResult(u, request, result)
                ELSE Response("approveToken", u, request, FALSE,
                              tokenInfo.error)
         /\ lastSendTransaction' =
                IF tokenInfo.ok /\ result.call # NoCall
                THEN result.call ELSE lastSendTransaction
         /\ sendTransactionCalls' =
                IF tokenInfo.ok /\ result.call # NoCall
                THEN Len(result.calls) ELSE sendTransactionCalls

\* ------------------------------------------------------------------------
\* UniswapV4MintService: pool discovery
\* ------------------------------------------------------------------------

\* Fee tiers to try (in order)
FEE_TIERS ==
    << [fee |-> 500, tickSpacing |-> 10],
       [fee |-> 3000, tickSpacing |-> 60],
       [fee |-> 10000, tickSpacing |-> 200] >>

getDefaultTickSpacing_Always60(fee) == 60

\* getDefaultTickSpacing: the table, and 60 for a fee it does not hold.
getDefaultTickSpacing(fee) ==
    CASE fee = 100 -> 1
      [] fee = 500 -> 10
      [] fee = 3000 -> 60
      [] fee = 10000 -> 200
      [] OTHER -> 60

\* The place of a lower-case address in the order of its characters:
\* "0x0000..." is before "0xa0b8..." which is before "0xc02a...".
codeUnitRank(hex) ==
    CASE hex = NATIVE_ETH_ADDRESS.hex -> 0
      [] hex = USDC -> 1
      [] hex = WETH -> 2

\* t0 < t1 on two lower-case address strings.
lessThan(t0, t1) == codeUnitRank(t0.hex) < codeUnitRank(t1.hex)

sortCurrencies_AsGiven(t0, t1) == <<t0, t1>>

\* const [currency0, currency1] = t0 < t1 ? [t0, t1] : [t1, t0]
sortCurrencies(t0, t1) == IF lessThan(t0, t1) THEN <<t0, t1>> ELSE <<t1, t0>>

\* The tiers the loop goes through: the one requested tier, or FEE_TIERS.
\* requestedFee and requestedTickSpacing are <<>> when undefined.
feeTiersToTry(requestedFee, requestedTickSpacing) ==
    IF requestedFee # <<>>
    THEN << [ fee |-> requestedFee[1],
              tickSpacing |-> IF requestedTickSpacing # <<>>
                              THEN requestedTickSpacing[1]
                              ELSE getDefaultTickSpacing(requestedFee[1]) ] >>
    ELSE FEE_TIERS

PoolKey(c, tier) ==
    [ currency0 |-> c[1], currency1 |-> c[2], fee |-> tier.fee,
      tickSpacing |-> tier.tickSpacing, hooks |-> NATIVE_ETH_ADDRESS ]

\* What the chain does with the getSlot0/getLiquidity reads of a probe.
PoolReadOutcomes == {"answers", "fails"}

\* fetchPoolState: the pool state, or None (null) when the price read is
\* zero and also when a read throws.
fetchPoolState(poolKey, read) ==
    IF read = "fails"
    THEN None
    ELSE IF <<poolKey.fee, poolKey.tickSpacing>> \in pools
         THEN [ poolId |-> <<"keccak256", poolKey>>,
                sqrtPriceX96 |-> "nonzero", tick |-> 0, liquidity |-> "L" ]
         ELSE None

\* What the reads of a probe met on the chain: a pool, the zero price of a
\* pool that does not exist, or an error thrown.
readMet(poolKey, read) ==
    IF read = "fails" THEN "threw"
    ELSE IF <<poolKey.fee, poolKey.tickSpacing>> \in pools THEN "pool"
    ELSE "zero"

DiscoveryFailure(msg) == [success |-> FALSE, error |-> msg]

DiscoveryPool_NoPoolIsError(exists, poolKey, state, infos) ==
    IF exists
    THEN [ success |-> TRUE,
           pool |-> [ exists |-> TRUE,
                      poolKey |-> poolKey,
                      sqrtPriceX96 |-> state.sqrtPriceX96,
                      liquidity |-> state.liquidity,
                      token0Symbol |-> infos[1].symbol,
                      token1Symbol |-> infos[2].symbol,
                      token0Decimals |-> infos[1].decimals,
                      token1Decimals |-> infos[2].decimals ] ]
    ELSE [success |-> FALSE, error |-> <<"Pool not found">>]

DiscoveryPool(exists, poolKey, state, infos) ==
    [ success |-> TRUE,
      pool |-> [ exists |-> exists,
                 poolKey |-> poolKey,
                 sqrtPriceX96 |-> IF exists THEN state.sqrtPriceX96 ELSE "0",
                 liquidity |-> IF exists THEN state.liquidity ELSE "0",
                 token0Symbol |-> infos[1].symbol,
                 token1Symbol |-> infos[2].symbol,
                 token0Decimals |-> infos[1].decimals,
                 token1Decimals |-> infos[2].decimals ] ]

\* The request and the currencies of a finished call that returned a pool.
Finished ==
    IF discovery # None /\ discovery.success
    THEN [ token0 |-> params.token0, token1 |-> params.token1,
           chainId |-> params.chainId,
           currency0 |-> discovery.pool.poolKey.currency0,
           currency1 |-> discovery.pool.poolKey.currency1 ]
    ELSE None

\* Whether getTokenInfo reaches getViemClient for the address.
needsClient(address, chainId) ==
    /\ address # NATIVE_ETH_ADDRESS
    /\ <<chainId, address>> \notin tokenInfoCache

\* discoverPool up to its first await: the chain check, the normalisation
\* and the order of the two addresses, and the start of both getTokenInfo.
discoverPoolBegin(p) ==
    /\ discoverPc \in {"idle", "done"}
    /\ previous' = Finished
    /\ params' = p
    /\ probes' = <<>>
    /\ reads' = <<>>
    /\ tokenInfos' = <<>>
    /\ UNCHANGED <<tokenInfoCache, pools>>
    /\ LET t0 == toLowerCase(p.token0)
           t1 == toLowerCase(p.token1)
           c == sortCurrencies(t0, t1)
       IN
       IF ~hasChainConfig(p.chainId)
       THEN /\ discovery' = DiscoveryFailure(<<"Unsupported chain ID", p.chainId>>)
            /\ discoverPc' = "done"
            /\ currencies' = <<>>
            /\ UNCHANGED viemClients
       ELSE IF t0 = t1
       THEN /\ discovery' = DiscoveryFailure(
                    <<"token0 and token1 must be different addresses">>)
            /\ discoverPc' = "done"
            /\ currencies' = <<>>
            /\ UNCHANGED viemClients
       ELSE /\ currencies' = c
            /\ discovery' = None
            /\ discoverPc' = "tokenInfo"
            /\ viemClients' =
                    IF needsClient(c[1], p.chainId)
                       \/ needsClient(c[2], p.chainId)
                    THEN viemClients \cup {p.chainId}
                    ELSE viemClients

\* The two getTokenInfo promises settle; on success the tiers are chosen
\* and the first one is handed to fetchPoolState.
discoverPoolTokenInfoSettled(read0, read1) ==
    /\ discoverPc = "tokenInfo"
    /\ LET i0 == getTokenInfo(currencies[1], params.chainId, read0)
           i1 == getTokenInfo(currencies[2], params.chainId, read1)
           tiers == feeTiersToTry(params.fee, params.tickSpacing)
       IN
       /\ tokenInfoCache' = i0.cache \cup i1.cache
       /\ viemClients' = i0.clients \cup i1.clients
       /\ IF ~i0.ok \/ ~i1.ok
          THEN /\ \E i \in {i0, i1} :
                    /\ ~i.ok
                    /\ discovery' = DiscoveryFailure(<<i.error>>)
               /\ discoverPc' = "done"
               /\ UNCHANGED <<tokenInfos, probes>>
          ELSE /\ tokenInfos' = << [symbol |-> i0.symbol, decimals |-> i0.decimals],
                                   [symbol |-> i1.symbol, decimals |-> i1.decimals] >>
               /\ IF params.fee = <<>> /\ params.tickSpacing # <<>>
                  THEN /\ discovery' = DiscoveryFailure(
                              <<"tickSpacing cannot be specified without fee">>)
                       /\ discoverPc' = "done"
                       /\ UNCHANGED probes
                  ELSE /\ probes' = <<PoolKey(currencies, tiers[1])>>
                       /\ discoverPc' = "probe"
                       /\ UNCHANGED discovery
    /\ UNCHANGED <<pools, params, currencies, reads, previous>>

\* fetchPoolState of the probed key settles: the pool is returned, or the
\* next tier is probed, or the default key is returned with exists false.
discoverPoolStateSettled(read) ==
    /\ discoverPc = "probe"
    /\ LET tiers == feeTiersToTry(params.fee, params.tickSpacing)
           poolKey == probes[Len(probes)]
           poolState == fetchPoolState(poolKey, read)
           defaultFee == IF params.fee # <<>> THEN params.fee[1] ELSE 3000
           defaultTickSpacing ==
               IF params.tickSpacing # <<>> THEN params.tickSpacing[1]
               ELSE IF params.fee # <<>>
                    THEN getDefaultTickSpacing(params.fee[1])
                    ELSE 60
       IN
       IF poolState # None /\ poolState.sqrtPriceX96 # "0"
       THEN /\ discovery' = DiscoveryPool(TRUE, poolKey, poolState, tokenInfos)
            /\ discoverPc' = "done"
            /\ UNCHANGED probes
       ELSE IF Len(probes) < Len(tiers)
       THEN /\ probes' = Append(probes,
                                PoolKey(currencies, tiers[Len(probes) + 1]))
            /\ UNCHANGED <<discovery, discoverPc>>
       ELSE /\ discovery' = DiscoveryPool(FALSE,
                    PoolKey(currencies, [fee |-> defaultFee,
                                         tickSpacing |-> defaultTickSpacing]),
                    None, tokenInfos)
            /\ discoverPc' = "done"
            /\ UNCHANGED probes
    /\ reads' = Append(reads, readMet(probes[Len(probes)], read))
    /\ UNCHANGED <<mintVars, pools, params, currencies, tokenInfos, previous>>

\* ------------------------------------------------------------------------
\* UniswapV4MintService: allowances and full-range ticks
\* ------------------------------------------------------------------------

\* What the chain answers to a balanceOf, getBalance or allowance read:
\* <<>> when the read throws, else the amount in the token's smallest units.
AmountReadOutcomes == {<<>>, <<0>>, <<1>>, <<2>>}

\* A small amount as a bigint.
Wei(n) == IF n = 0 THEN <<0>> ELSE reverse(mulAdd(<<>>, 1, n))

\* a < b on two bigints
lessThanBigInt(a, b) ==
    \/ Len(a) < Len(b)
    \/ /\ Len(a) = Len(b)
       /\ \E i \in 1..Len(a) :
             /\ a[i] < b[i]
             /\ \A j \in 1..(i - 1) : a[j] = b[j]

\* getViemClient: the chains with a client after the call, or the throw.
getViemClient(chainId) ==
    IF chainId \in viemClients
    THEN [threw |-> FALSE, clients |-> viemClients]
    ELSE IF ~hasChainConfig(chainId)
    THEN [threw |-> TRUE, clients |-> viemClients]
    ELSE [threw |-> FALSE, clients |-> viemClients \cup {chainId}]

checkAllowance_ClientFirst(walletAddress, token, spender, chainId, read) ==
    LET client == getViemClient(chainId)
        call == [ address |-> token, functionName |-> "allowance",
                  args |-> <<walletAddress, spender>>, chainId |-> chainId ]
    IN
    IF client.threw
    THEN [ threw |-> TRUE, error |-> "Unsupported chain ID",
           clients |-> client.clients, readContract |-> <<>> ]
    ELSE IF token = NATIVE_ETH_ADDRESS
    THEN [ threw |-> FALSE, allowance |-> MAX_UINT256_BigInt,
           clients |-> client.clients, readContract |-> <<>> ]
    ELSE IF read = <<>>
    THEN [ threw |-> TRUE, error |-> "Failed to check allowance",
           clients |-> client.clients, readContract |-> <<call>> ]
    ELSE [ threw |-> FALSE, allowance |-> Wei(read[1]),
           clients |-> client.clients, readContract |-> <<call>> ]

\* checkAllowance: what it returns or throws, the chains with a client
\* after it, and the contract reads it issued.
checkAllowance(walletAddress, token, spender, chainId, read) ==
    IF token = NATIVE_ETH_ADDRESS
    THEN [ threw |-> FALSE, allowance |-> MAX_UINT256_BigInt,
           clients |-> viemClients, readContract |-> <<>> ]
    ELSE LET client == getViemClient(chainId)
             call == [ address |-> token, functionName |-> "allowance",
                       args |-> <<walletAddress, spender>>,
                       chainId |-> chainId ]
         IN
         IF client.threw
         THEN [ threw |-> TRUE, error |-> "Unsupported chain ID",
                clients |-> client.clients, readContract |-> <<>> ]
         ELSE IF read = <<>>
         THEN [ threw |-> TRUE, error |-> "Failed to check allowance",
                clients |-> client.clients, readContract |-> <<call>> ]
         ELSE [ threw |-> FALSE, allowance |-> Wei(read[1]),
                clients |-> client.clients, readContract |-> <<call>> ]

MIN_TICK == -887272
MAX_TICK == 887272

\* Math.round(tick / tickSpacing): the nearest integer, a half goes up.
MathRound(numerator, denominator) ==
    (2 * numerator + denominator) \div (2 * denominator)

nearestUsableTick_NoPullBack(tick, tickSpacing) ==
    MathRound(tick, tickSpacing) * tickSpacing

\* nearestUsableTick of the SDK, for integers with tickSpacing > 0 and
\* MIN_TICK <= tick <= MAX_TICK (it throws for anything else).
nearestUsableTick(tick, tickSpacing) ==
    LET rounded == MathRound(tick, tickSpacing) * tickSpacing IN
    IF rounded < MIN_TICK THEN rounded + tickSpacing
    ELSE IF rounded > MAX_TICK THEN rounded - tickSpacing
    ELSE rounded

calculateFullRangeTicks(tickSpacing) ==
    [ tickLower |-> nearestUsableTick(MIN_TICK, tickSpacing),
      tickUpper |-> nearestUsableTick(MAX_TICK, tickSpacing) ]

\* ------------------------------------------------------------------------
\* UniswapV4MintService: mintPosition
\* ------------------------------------------------------------------------

\* BigInt(amount) of an amount string of a request.
BigIntOfDecimal(str) == Wei(decimalValue(str))

\* checkBalance: what it returns or throws. The client of the chain exists
\* by then: pool discovery read a token of the pair through it.
checkBalance(walletAddress, token, amount, chainId, read) ==
    IF read = <<>>
    THEN [ threw |-> TRUE, token |-> token ]
    ELSE [ threw |-> FALSE, token |-> token,
           sufficient |-> ~lessThanBigInt(Wei(read[1]), amount),
           balance |-> Wei(read[1]), required |-> amount ]

\* The error of a failed mintPosition: what it says and what it names.
MintError(kind, symbol, token, required, available) ==
    [ kind |-> kind, symbol |-> symbol, token |-> token,
      required |-> required, available |-> available ]

PlainError(kind) == MintError(kind, "", None, <<>>, <<>>)

MintFailure(error) == [success |-> FALSE, error |-> error]

\* tokensSwapped: whether the caller's token0 is not the pool's currency0.
tokensSwapped(token0, pool) ==
    toLowerCase(token0) # toLowerCase(pool.poolKey.currency0)

amountsForPool_AsGiven(swapped, amount0Desired, amount1Desired) ==
    <<amount0Desired, amount1Desired>>

\* <<amount0DesiredForPool, amount1DesiredForPool>>
amountsForPool(swapped, amount0Desired, amount1Desired) ==
    IF swapped THEN <<amount1Desired, amount0Desired>>
    ELSE <<amount0Desired, amount1Desired>>

balanceShortfall_Token1First(balance0Check, balance1Check, pool) ==
    IF ~balance1Check.sufficient
    THEN MintError("Insufficient balance", pool.token1Symbol,
                   balance1Check.token, balance1Check.required,
                   balance1Check.balance)
    ELSE IF ~balance0Check.sufficient
    THEN MintError("Insufficient balance", pool.token0Symbol,
                   balance0Check.token, balance0Check.required,
                   balance0Check.balance)
    ELSE None

balanceShortfall_FirstLegOnly(balance0Check, balance1Check, pool) ==
    IF ~balance0Check.sufficient
    THEN MintError("Insufficient balance", pool.token0Symbol,
                   balance0Check.token, balance0Check.required,
                   balance0Check.balance)
    ELSE None

\* The two balance tests after Promise.all: the error returned, or None.
balanceShortfall(balance0Check, balance1Check, pool) ==
    IF ~balance0Check.sufficient
    THEN MintError("Insufficient balance", pool.token0Symbol,
                   balance0Check.token, balance0Check.required,
                   balance0Check.balance)
    ELSE IF ~balance1Check.sufficient
    THEN MintError("Insufficient balance", pool.token1Symbol,
                   balance1Check.token, balance1Check.required,
                   balance1Check.balance)
    ELSE None

notApproved_Never(allowance, required) == FALSE

\* allowance < amountWei
notApproved(allowance, required) == lessThanBigInt(allowance, required)

\* A mintPosition call in progress: its arguments, the session it read,
\* the pool and the amounts in the pool's order, and what it observed and
\* did: the balance checks, the allowances, the position, the submission.
MintCall(u, p) ==
    [ userId |-> u, params |-> p, session |-> sessions[u],
      pool |-> None, swapped |-> FALSE,
      amount0DesiredForPool |-> "", amount1DesiredForPool |-> "",
      balanceChecks |-> <<>>, allowances |-> <<>>,
      position |-> None, submitted |-> FALSE ]

\* mintPosition after discoverPool returned `d`: no pool, or the amounts
\* in the pool's order and the start of the two balance checks.
mintPositionPoolDiscovered(m, d) ==
    IF ~d.success \/ ~d.pool.exists
    THEN /\ mintResult' = MintFailure(PlainError("No pool found"))
         /\ mintPc' = "done"
         /\ mint' = m
    ELSE LET swapped == tokensSwapped(m.params.token0, d.pool)
             amounts == amountsForPool(swapped, m.params.amount0Desired,
                                       m.params.amount1Desired)
         IN
         /\ mint' = [m EXCEPT !.pool = d.pool, !.swapped = swapped,
                              !.amount0DesiredForPool = amounts[1],
                              !.amount1DesiredForPool = amounts[2]]
         /\ mintPc' = "balances"
         /\ mintResult' = None

\* mintPosition up to its first await: the chain, the session, and the
\* start of discoverPool with the two addresses in lower case.
mintPositionBegin(u, p) ==
    /\ mintPc \in {"idle", "done"}
    /\ IF ~hasChainConfig(p.chainId)
       THEN /\ mintResult' = MintFailure(PlainError("Unsupported chain ID"))
            /\ mintPc' = "done"
            /\ mint' = MintCall(u, p)
            /\ UNCHANGED <<mintVars, poolVars>>
       ELSE IF sessions[u] = NoSession
       THEN /\ mintResult' = MintFailure(PlainError("SESSION_NOT_FOUND"))
            /\ mintPc' = "done"
            /\ mint' = MintCall(u, p)
            /\ UNCHANGED <<mintVars, poolVars>>
       ELSE /\ discoverPoolBegin([ token0 |-> toLowerCase(p.token0),
                                   token1 |-> toLowerCase(p.token1),
                                   chainId |-> p.chainId,
                                   fee |-> <<>>, tickSpacing |-> <<>> ])
            /\ IF discoverPc' = "done"
               THEN mintPositionPoolDiscovered(MintCall(u, p), discovery')
               ELSE /\ mint' = MintCall(u, p)
                    /\ mintPc' = "discover"
                    /\ mintResult' = None

\* A step of the awaited discoverPool, and mintPosition's continuation when
\* the step returned.
mintPositionDiscovering ==
    IF discoverPc' = "done"
    THEN mintPositionPoolDiscovered(mint, discovery')
    ELSE UNCHANGED positionVars

\* The two checkBalance promises settle; with both balances sufficient the
\* allowance of the first leg that is not the native asset is read.
mintPositionBalancesSettled(read0, read1) ==
    /\ mintPc = "balances"
    /\ LET key == mint.pool.poolKey
           chainId == mint.params.chainId
           amount0Wei == BigIntOfDecimal(mint.amount0DesiredForPool)
           amount1Wei == BigIntOfDecimal(mint.amount1DesiredForPool)
           balance0Check == checkBalance(mint.session.walletAddress,
                                key.currency0, amount0Wei, chainId, read0)
           balance1Check == checkBalance(mint.session.walletAddress,
                                key.currency1, amount1Wei, chainId, read1)
       IN
       IF balance0Check.threw \/ balance1Check.threw
       THEN /\ \E c \in {balance0Check, balance1Check} :
                 /\ c.threw
                 /\ mintResult' = MintFailure(
                        MintError("Failed to check balance", "", c.token,
                                  <<>>, <<>>))
            /\ mintPc' = "done"
            /\ mint' = mint
       ELSE LET shortfall == balanceShortfall(balance0Check, balance1Check,
                                              mint.pool)
            IN
            /\ mint' = [mint EXCEPT
                          !.balanceChecks = <<balance0Check, balance1Check>>]
            /\ IF shortfall # None
               THEN /\ mintResult' = MintFailure(shortfall)
                    /\ mintPc' = "done"
               ELSE /\ mintPc' = IF key.currency0 # NATIVE_ETH_ADDRESS
                                THEN "allowance0" ELSE "allowance1"
                    /\ UNCHANGED mintResult

\* What the allowance read of a leg gave: the leg, the allowance and the
\* amount required.
AllowanceCheck(token, allowance, required) ==
    [token |-> token, allowance |-> allowance, required |-> required]

\* checkAllowance of currency0 settles.
mintPositionAllowance0Settled(read) ==
    /\ mintPc = "allowance0"
    /\ LET key == mint.pool.poolKey
           amount0Wei == BigIntOfDecimal(mint.amount0DesiredForPool)
           r == checkAllowance(mint.session.walletAddress, key.currency0,
                    V4_CHAIN_CONFIGS[mint.params.chainId].positionManagerAddress,
                    mint.params.chainId, read)
       IN
       /\ viemClients' = r.clients
       /\ IF r.threw
          THEN /\ mintResult' = MintFailure(
                      MintError(r.error, "", key.currency0, <<>>, <<>>))
               /\ mintPc' = "done"
               /\ mint' = mint
          ELSE /\ mint' = [mint EXCEPT !.allowances =
                             Append(@, AllowanceCheck(key.currency0,
                                                      r.allowance, amount0Wei))]
               /\ IF notApproved(r.allowance, amount0Wei)
                  THEN /\ mintResult' = MintFailure(
                              MintError("not approved", mint.pool.token0Symbol,
                                        key.currency0, amount0Wei, r.allowance))
                       /\ mintPc' = "done"
                  ELSE /\ mintPc' = "allowance1"
                       /\ UNCHANGED mintResult

\* Position.fromAmounts on the pool and the full-range ticks: the
\* liquidity is the SDK's function of the price, the ticks and the amounts.
PositionFromAmounts(pool, ticks, amount0, amount1) ==
    [ poolKey |-> pool.poolKey,
      tickLower |-> ticks.tickLower, tickUpper |-> ticks.tickUpper,
      amount0 |-> amount0, amount1 |-> amount1,
      liquidity |-> [ maxLiquidityForAmounts |->
                        << pool.sqrtPriceX96, ticks.tickLower,
                           ticks.tickUpper, amount0, amount1 >> ] ]

\* V4PositionManager.addCallParameters: the calldata and the value, which
\* is the native amount of a pool whose currency0 is the native asset.
addCallParameters(position, recipient) ==
    [ calldata |-> [ functionName |-> "modifyLiquidities",
                     position |-> position, recipient |-> recipient ],
      value |-> IF position.poolKey.currency0 = NATIVE_ETH_ADDRESS
                THEN "amount0Max" ELSE "0" ]

\* checkAllowance of currency1 settles; with the allowance in place the
\* position is built and handed to walletService.transact.
mintPositionAllowance1Settled(read, send) ==
    /\ mintPc = "allowance1"
    /\ LET key == mint.pool.poolKey
           chainId == mint.params.chainId
           positionManager == V4_CHAIN_CONFIGS[chainId].positionManagerAddress
           amount0Wei == BigIntOfDecimal(mint.amount0DesiredForPool)
           amount1Wei == BigIntOfDecimal(mint.amount1DesiredForPool)
           r == checkAllowance(mint.session.walletAddress, key.currency1,
                               positionManager, chainId, read)
           ticks == calculateFullRangeTicks(key.tickSpacing)
           positionSdk == PositionFromAmounts(mint.pool, ticks,
                                              amount0Wei, amount1Wei)
           call == addCallParameters(positionSdk, mint.session.walletAddress)
           result == transact(mint.userId,
                              TxParams(positionManager, call.value,
                                       call.calldata, chainId), send)
       IN
       /\ viemClients' = r.clients
       /\ mintPc' = "done"
       /\ IF r.threw
          THEN /\ mintResult' = MintFailure(
                      MintError(r.error, "", key.currency1, <<>>, <<>>))
               /\ mint' = mint
               /\ UNCHANGED <<lastSendTransaction, sendTransactionCalls>>
          ELSE IF notApproved(r.allowance, amount1Wei)
          THEN /\ mintResult' = MintFailure(
                      MintError("not approved", mint.pool.token1Symbol,
                                key.currency1, amount1Wei, r.allowance))
               /\ mint' = [mint EXCEPT !.allowances =
                             Append(@, AllowanceCheck(key.currency1,
                                                      r.allowance, amount1Wei))]
               /\ UNCHANGED <<lastSendTransaction, sendTransactionCalls>>
          ELSE /\ mint' = [mint EXCEPT
                             !.allowances =
                                 Append(@, AllowanceCheck(key.currency1,
                                                 r.allowance, amount1Wei)),
                             !.position = positionSdk,
                             !.submitted = result.call # NoCall]
               /\ lastSendTransaction' =
                      IF result.call # NoCall THEN result.call
                      ELSE lastSendTransaction
               /\ sendTransactionCalls' =
                      IF result.call # NoCall THEN Len(result.calls)
                      ELSE sendTransactionCalls
               /\ mintResult' =
                      IF transactionSent(result)
                      THEN [ success |-> TRUE,
                             txHash |-> result.hash,
                             chainId |-> chainId,
                             expectedPosition |->
                               [ poolKey |-> key,
                                 tickLower |-> ticks.tickLower,
                                 tickUpper |-> ticks.tickUpper,
                                 liquidity |-> positionSdk.liquidity,
                                 amount0 |-> mint.amount0DesiredForPool,
                                 amount1 |-> mint.amount1DesiredForPool ] ]
                      ELSE MintFailure(PlainError(
                               IF result.error # "" THEN result.error
                               ELSE "Minting transaction failed"))

\* ------------------------------------------------------------------------
\* server.ts: start-up, the /api routes, shutdown
\* ------------------------------------------------------------------------

\* getWalletService(): the service, or the error it throws.
getWalletService ==
    IF walletService = None THEN "WalletService not initialized"
    ELSE "walletService"

\* process.exit(code)
exit(code) ==
    /\ serverPc' = "exited"
    /\ exitCode' = <<code>>

\* Module load: the required environment variables are validated, then
\* startServer() runs to its await of policyManager.initialize().
ServerBoot ==
    /\ serverPc = "boot"
    /\ IF env.credentials /\ env.signerId # "" /\ env.signerKey
       THEN /\ InitializeBegin
            /\ serverPc' = "awaitInit"
            /\ UNCHANGED exitCode
       ELSE /\ exit(1)
            /\ UNCHANGED pmVars
    /\ UNCHANGED <<env, remote, posted, walletService, routes, listening,
                   serviceVars, mintVars, poolVars,
                   positionVars, methodVars, botVars>>

ServerGetPolicyResolved ==
    /\ serverPc = "awaitInit"
    /\ InitializeGetPolicyResolved
    /\ UNCHANGED <<env, remote, posted, processVars, serviceVars, mintVars, poolVars,
                   positionVars, methodVars, botVars>>

ServerGetPolicyRejected ==
    /\ serverPc = "awaitInit"
    /\ InitializeGetPolicyRejected
    /\ UNCHANGED <<env, remote, posted, processVars, serviceVars, mintVars, poolVars,
                   positionVars, methodVars, botVars>>

ServerCreatePolicyResolved ==
    /\ serverPc = "awaitInit"
    /\ InitializeCreatePolicyResolved
    /\ UNCHANGED <<env, remote, processVars, serviceVars, mintVars, poolVars,
                   positionVars, methodVars, botVars>>

ServerCreatePolicyRejected ==
    /\ serverPc = "awaitInit"
    /\ InitializeCreatePolicyRejected
    /\ UNCHANGED <<env, remote, processVars, serviceVars, mintVars, poolVars,
                   positionVars, methodVars, botVars>>

\* startServer that goes on whatever initialize returned.
startServerAfterInitialize_NoCheck ==
    /\ walletService' = [policyIds |-> policyIds]
    /\ routes' = TRUE
    /\ listening' = TRUE
    /\ serverPc' = "listening"
    /\ UNCHANGED exitCode

\* startServer after its await: exit(1) on failure, else the WalletService
\* is constructed with the policy ids, the routes are registered and the
\* server listens. An error thrown on the way ends in startServer's catch.
startServerAfterInitialize ==
    IF ~initResult.success \/ getPolicyIds.threw
    THEN /\ exit(1)
         /\ UNCHANGED <<walletService, routes, listening>>
    ELSE /\ walletService' = [policyIds |-> getPolicyIds.value]
         /\ routes' = TRUE
         /\ listening' = TRUE
         /\ serverPc' = "listening"
         /\ UNCHANGED exitCode

ServerStart ==
    /\ serverPc = "awaitInit"
    /\ pmPc = "idle"
    /\ startServerAfterInitialize
    /\ UNCHANGED <<policyVars, serviceVars, mintVars, poolVars,
                   positionVars, methodVars, botVars>>

\* A request reaches a route handler only on a listening server with the
\* router registered.
Serving == serverPc = "listening" /\ listening /\ routes

\* POST /api/connect
ApiConnect ==
    /\ Serving
    /\ \E u \in Users, o \in ConnectOutcomes : connect(u, o)
    /\ lastServed' = "connect"
    /\ UNCHANGED <<policyVars, processVars, lastSendTransaction,
                   sendTransactionCalls, botSessions,
                   mintVars, poolVars,
                   positionVars, methodVars, botVars>>

\* POST /api/transact
ApiTransact ==
    /\ Serving
    /\ \E u \in Users, send \in SendOutcomes :
          LET r == transact(u, TxParams(Addr(USDC, "lower"), "0",
                                        [raw |-> "0x"], 1),
                            send) IN
          /\ response' = Response("transact", u, None, r.success, r.error)
          /\ lastSendTransaction' =
                 IF r.call # NoCall THEN r.call ELSE lastSendTransaction
          /\ sendTransactionCalls' =
                 IF r.call # NoCall THEN Len(r.calls)
                 ELSE sendTransactionCalls
    /\ lastServed' = "transact"
    /\ UNCHANGED <<policyVars, processVars, sessions, custody,
                   lastWalletCreate, botSessions, mintVars, poolVars,
                   positionVars, methodVars, botVars>>

\* POST /api/disconnect
ApiDisconnect ==
    /\ Serving
    /\ \E u \in Users : disconnect(u)
    /\ lastServed' = "disconnect"
    /\ UNCHANGED <<policyVars, processVars, custody, lastWalletCreate,
                   lastSendTransaction,
                   sendTransactionCalls, botSessions, mintVars, poolVars,
                   positionVars, methodVars, botVars>>

\* POST /api/v4/approve
ApiApprove ==
    /\ Serving
    /\ \E u \in Users, token \in ApproveTokenInputs, amount \in AmountInputs,
          chainId \in ChainInputs, read \in TokenReadOutcomes,
          send \in SendOutcomes :
          approveToken(u, token, amount, chainId, read, send)
    /\ lastServed' = "approve"
    /\ UNCHANGED <<policyVars, processVars, sessions, custody,
                   lastWalletCreate, botSessions, poolVars,
                   positionVars, methodVars, botVars>>

\* gracefulShutdown: the HTTP server is closed when it was started, the
\* sessions are cleared when the service exists, the process exits with 0.
\* A signal is handled between tasks: never between the return of initialize
\* and the continuation of startServer that awaits it.
gracefulShutdown ==
    /\ serverPc \in {"awaitInit", "listening"}
    /\ ~(serverPc = "awaitInit" /\ pmPc = "idle")
    /\ IF walletService # None
       THEN clearAllSessions
       ELSE UNCHANGED sessions
    /\ listening' = FALSE
    /\ exit(0)
    /\ UNCHANGED <<policyVars, walletService, routes, lastServed, response,
                   custody,
                   lastWalletCreate, lastSendTransaction,
                   sendTransactionCalls, botSessions,
                   mintVars, poolVars,
                   positionVars, methodVars, botVars>>

\* ------------------------------------------------------------------------
\* The Telegram bot's /connect handler (commands/connect.ts)
\* ------------------------------------------------------------------------

\* The private chat of a user.
ChatOf(u) == <<"chat", u>>

\* What Telegram answers to a bot.sendMessage call.
SendMessageOutcomes == {"sent", "fails"}

\* bot.sendMessage(chatId, text): the call, whether or not it gets through.
Message(chatId, text) == [chatId |-> chatId, text |-> text]

handleConnect_StoresAlways(u, o, send) ==
    LET r == connectWith("handleConnect", u, <<>>, o) IN
    /\ custody' = r.custody
    /\ lastWalletCreate' = r.call
    /\ botSessions' = [botSessions EXCEPT ![u] =
                          [userId |-> PrivyUserId(u), walletId |-> WalletId(u)]]
    /\ lastMessage' = Message(ChatOf(u), "CONNECTION_FAILED")

\* handleConnect(msg, {bot, privy, sessions}) for a message of user u in
\* the user's chat: the custody calls, the session stored, the message
\* sent. When sending WALLET_CONNECTED fails, CONNECTION_FAILED is sent.
handleConnectOf(u, o, send) ==
    LET r == connectWith("handleConnect", u, <<>>, o) IN
    /\ custody' = r.custody
    /\ lastWalletCreate' = r.call
    /\ botSessions' =
           IF r.success
           THEN [botSessions EXCEPT ![u] =
                    [userId |-> PrivyUserId(u), walletId |-> WalletId(u)]]
           ELSE botSessions
    /\ lastMessage' =
           IF r.success /\ send = "sent"
           THEN Message(ChatOf(u), "WALLET_CONNECTED")
           ELSE Message(ChatOf(u), "CONNECTION_FAILED")

handleConnect ==
    /\ \E u \in Users, o \in ConnectOutcomes, send \in SendMessageOutcomes :
          handleConnectOf(u, o, send)
    /\ UNCHANGED <<policyVars, processVars, lastServed, response, sessions,
                   lastSendTransaction,
                   sendTransactionCalls, mintVars, poolVars, positionVars,
                   methodVars, pendingConfirmations, messageHandlerSetup,
                   timers, nextTimeoutId, botTasks, updateId, transcript>>

\* handleDisconnect(msg, {bot, sessions}) for a message of user u in the
\* user's chat. When sending the notice fails, DISCONNECT_FAILED is sent.
handleDisconnectOf(u, send) ==
    /\ botSessions' = [botSessions EXCEPT ![u] = NoSession]
    /\ lastMessage' =
           IF send = "fails"
           THEN Message(ChatOf(u), "DISCONNECT_FAILED")
           ELSE IF botSessions[u] = NoSession
           THEN Message(ChatOf(u), "NOT_CONNECTED")
           ELSE Message(ChatOf(u), "DISCONNECTED")

handleDisconnect ==
    /\ \E u \in Users, send \in SendMessageOutcomes :
          handleDisconnectOf(u, send)
    /\ UNCHANGED <<policyVars, processVars, lastServed, response, sessions,
                   custody, lastWalletCreate, lastSendTransaction,
                   sendTransactionCalls, mintVars,
                   poolVars, positionVars, methodVars, pendingConfirmations,
                   messageHandlerSetup, timers, nextTimeoutId, botTasks, updateId, transcript>>

\* ------------------------------------------------------------------------
\* The Telegram bot's /transact handler (commands/transact.ts)
\* ------------------------------------------------------------------------

\* constants.ts RESPONSE_TIMEOUT, in milliseconds.
RESPONSE_TIMEOUT == 60000

\* A chat the bot and both users are members of.
GroupChat == <<"chat", "group">>

\* The chats a user writes in.
ChatsOf(u) == {ChatOf(u), GroupChat}

\* msg.text of a message without text (a sticker, a photo): `!msg.text`
\* holds for it as it does for the empty string.
NoText == <<>>

\* Texts, as sequences of characters.
TextYES == <<"Y", "E", "S">>
TextYesSpaced == <<" ", "y", "e", "s", " ">>
TextNo == <<"N", "o">>
TextYesBang == <<"y", "e", "s", "!">>
TextTransact == <<"/", "t", "r", "a", "n", "s", "a", "c", "t">>

\* What users write to the bot besides commands.
Texts == {TextYES, TextYesSpaced, TextNo, TextYesBang}

toLowerCaseChar(c) ==
    CASE c = "Y" -> "y"
      [] c = "E" -> "e"
      [] c = "S" -> "s"
      [] c = "N" -> "n"
      [] c = "O" -> "o"
      [] OTHER -> c

\* String.prototype.toLowerCase on a text.
toLowerCaseText(t) == [i \in 1..Len(t) |-> toLowerCaseChar(t[i])]

WhiteSpace == {" ", "\n", "\t"}

RECURSIVE trimStart(_)
trimStart(t) ==
    IF t # <<>> /\ Head(t) \in WhiteSpace THEN trimStart(Tail(t)) ELSE t

RECURSIVE trimEnd(_)
trimEnd(t) ==
    IF t # <<>> /\ t[Len(t)] \in WhiteSpace
    THEN trimEnd(SubSeq(t, 1, Len(t) - 1)) ELSE t

\* String.prototype.trim
trim(t) == trimEnd(trimStart(t))

\* A Telegram message: msg.from.id, msg.chat.id, msg.text.
Msg(from, chat, text) == [from |-> from, chat |-> chat, text |-> text]

\* The state the bot's handlers read and write, as one record.
Bot ==
    [ pending |-> pendingConfirmations, setup |-> messageHandlerSetup,
      timers |-> timers, nextId |-> nextTimeoutId, tasks |-> botTasks,
      lastMessage |-> lastMessage, lastTx |-> lastSendTransaction,
      transcript |-> transcript ]

BotBecomes(b) ==
    /\ pendingConfirmations' = b.pending
    /\ messageHandlerSetup' = b.setup
    /\ timers' = b.timers
    /\ nextTimeoutId' = b.nextId
    /\ botTasks' = b.tasks
    /\ lastMessage' = b.lastMessage
    /\ lastSendTransaction' = b.lastTx
    /\ UNCHANGED sendTransactionCalls
    /\ transcript' = b.transcript

\* A handler suspended at an await: which call it waits for, the update it
\* handles, the message and the wallet id it holds (<<>> when it holds none).
Task(kind, update, msg, walletId) ==
    [kind |-> kind, update |-> update, msg |-> msg, walletId |-> walletId]

\* bot.sendMessage(chatId, text) is called.
sendMessage(b, chatId, text) ==
    [b EXCEPT !.lastMessage = Message(chatId, text)]

\* The handler goes on to wait for the call it just made.
await(b, kind, update, msg, walletId) ==
    [b EXCEPT !.tasks = @ \cup {Task(kind, update, msg, walletId)}]

clearTimeout_Ignored(ts, timeoutId) == ts

\* clearTimeout(timeoutId)
clearTimeout(ts, timeoutId) ==
    SelectSeq(ts, LAMBDA t : t.id # timeoutId)

\* pendingConfirmations.delete(userId)
deletePending(b, userId) ==
    [b EXCEPT !.pending[userId] = None]

\* The sendTransaction call of the confirmation handler.
ConfirmedTransaction(walletId) ==
    [ walletId |-> walletId, caip2 |-> <<"eip155", 1>>,
      to |-> [raw |-> "0x..."], value |-> "0", data |-> [raw |-> "0x"] ]

pendingOf_AnyUser(b, userId) ==
    IF \E v \in Users : b.pending[v] # None
    THEN b.pending[CHOOSE v \in Users : b.pending[v] # None]
    ELSE None

\* pendingConfirmations.get(userId)
pendingOf(b, userId) == b.pending[userId]

\* The history of a chat: a message of the user arrived in the chat.
Responded(tr, userId, chatId) ==
    [i \in 1..Len(tr) |->
        IF tr[i].userId = userId /\ tr[i].chatId = chatId
        THEN [tr[i] EXCEPT !.responded = TRUE] ELSE tr[i]]

\* The history of a chat: the time-out notice was sent to the chat.
Noticed(tr, chatId) ==
    [i \in 1..Len(tr) |->
        IF tr[i].chatId = chatId
        THEN [tr[i] EXCEPT !.noticed = TRUE] ELSE tr[i]]

\* The 'message' listener registered by setupMessageHandler, up to its
\* first await, for update `update` carrying msg.
onMessage(b, update, msg) ==
    LET userId == msg.from
        chatId == msg.chat
        pending == pendingOf(b, userId)
    IN
    IF ~b.setup THEN b
    ELSE IF pending = None THEN b
    ELSE IF pending.chatId # chatId THEN b
    ELSE
      LET b1 == [b EXCEPT !.pending[pending.userId].responseReceived = TRUE,
                          !.timers = clearTimeout(@, pending.timeoutId),
                          !.transcript[pending.timeoutId].replied = TRUE]
      IN
      IF msg.text = NoText
      THEN await(sendMessage(b1, chatId, "REPLY_WITH_TEXT"),
                 "reply", update, msg, pending.walletId)
      ELSE
        LET reply == trim(toLowerCaseText(msg.text))
            b2 == deletePending(b1, userId)
        IN
        IF reply = <<"y", "e", "s">>
        THEN await([b2 EXCEPT !.lastTx = ConfirmedTransaction(pending.walletId)],
                   "sendTransaction", update, msg, pending.walletId)
        ELSE IF reply = <<"n", "o">>
        THEN await(sendMessage(b2, chatId, "TRANSACTION_CANCELED"),
                   "reply", update, msg, pending.walletId)
        ELSE await(sendMessage(b2, chatId, "INVALID_RESPONSE"),
                   "reply", update, msg, pending.walletId)

\* handleTransact(msg, {bot, privy, sessions}) up to its first await.
handleTransact(b, update, msg) ==
    LET userId == msg.from
        chatId == msg.chat
        session == botSessions[userId]
    IN
    IF session = NoSession
    THEN await(sendMessage(b, chatId, "NO_SESSION"),
               "command", update, msg, <<>>)
    ELSE IF b.pending[userId] # None
    THEN await(sendMessage(b, chatId, "ALREADY_PENDING"),
               "command", update, msg, <<>>)
    ELSE await(sendMessage([b EXCEPT !.setup = TRUE], chatId, "PROMPT"),
               "prompt", update, msg, session.walletId)

\* handleTransact after the prompt was sent: the timer is armed and the
\* confirmation is stored.
handleTransactPrompted(b, task) ==
    LET userId == task.msg.from
        chatId == task.msg.chat
        timeoutId == b.nextId
    IN
    [b EXCEPT
       !.nextId = @ + 1,
       !.timers = Append(@, [ id |-> timeoutId, userId |-> userId,
                              chatId |-> chatId, delay |-> RESPONSE_TIMEOUT ]),
       !.pending[userId] = [ chatId |-> chatId, userId |-> userId,
                             walletId |-> task.walletId,
                             timeoutId |-> timeoutId,
                             responseReceived |-> FALSE ],
       !.transcript = Append(@, [ userId |-> userId, chatId |-> chatId,
                                  responded |-> FALSE, noticed |-> FALSE,
                                  fired |-> FALSE, replied |-> FALSE,
                                  timedOut |-> FALSE ])]

\* The catch of handleTransact.
handleTransactCatch(b, task) ==
    sendMessage(deletePending(b, task.msg.from), task.msg.chat,
                "GENERIC_ERROR")

\* The outer catch of the 'message' listener.
onMessageCatch(b, task) ==
    sendMessage(deletePending(b, task.msg.from), task.msg.chat,
                "CONFIRMATION_ERROR")

\* The callback of the timer armed by handleTransact.
onTimeout(b, timer) ==
    LET pending == b.pending[timer.userId] IN
    IF pending # None /\ ~pending.responseReceived
    THEN [ sendMessage(deletePending(b, timer.userId), timer.chatId,
                       "TRANSACTION_TIMEOUT")
           EXCEPT !.transcript =
                     [i \in DOMAIN @ |->
                        IF i \in {timer.id, pending.timeoutId}
                        THEN [Noticed(@, timer.chatId)[i]
                                EXCEPT !.timedOut = TRUE]
                        ELSE Noticed(@, timer.chatId)[i]] ]
    ELSE b

\* What the bot's /transact steps leave alone.
BotRest ==
    UNCHANGED <<policyVars, processVars, lastServed, response, sessions,
                custody, lastWalletCreate, botSessions, mintVars, poolVars,
                positionVars, methodVars>>

\* Telegram delivers a message of user u in chat c: the 'message' listener
\* runs up to its first await.
MessageReceivedOf(u, c, text) ==
    /\ updateId < MaxUpdates
    /\ updateId' = updateId + 1
    /\ LET msg == Msg(u, c, text)
           b == onMessage(Bot, updateId', msg)
       IN BotBecomes([b EXCEPT !.transcript = Responded(@, u, c)])

MessageReceived ==
    /\ \E u \in Users : \E c \in ChatsOf(u), text \in Texts \cup {NoText} :
          MessageReceivedOf(u, c, text)
    /\ BotRest

\* Telegram delivers /transact of user u in chat c: the library emits
\* 'message' first, then calls the onText callback, each up to its first
\* await.
TransactCommandOf(u, c) ==
    /\ updateId < MaxUpdates
    /\ updateId' = updateId + 1
    /\ LET msg == Msg(u, c, TextTransact)
           b == handleTransact(onMessage(Bot, updateId', msg), updateId', msg)
       IN BotBecomes([b EXCEPT !.transcript = Responded(@, u, c)])

TransactCommand ==
    /\ \E u \in Users : \E c \in ChatsOf(u) : TransactCommandOf(u, c)
    /\ BotRest

\* The sendMessage of handleTransact's NO_SESSION or already-pending
\* branch settles.
CommandSettled ==
    /\ \E task \in botTasks, send \in SendMessageOutcomes :
          /\ task.kind = "command"
          /\ LET b == [Bot EXCEPT !.tasks = @ \ {task}] IN
             BotBecomes(IF send = "sent" THEN b
                        ELSE handleTransactCatch(b, task))
    /\ UNCHANGED updateId
    /\ BotRest

\* The sendMessage of the prompt settles.
PromptSettled ==
    /\ \E task \in botTasks, send \in SendMessageOutcomes :
          /\ task.kind = "prompt"
          /\ LET b == [Bot EXCEPT !.tasks = @ \ {task}] IN
             BotBecomes(IF send = "sent"
                        THEN handleTransactPrompted(b, task)
                        ELSE handleTransactCatch(b, task))
    /\ UNCHANGED updateId
    /\ BotRest

\* The sendMessage of the listener's answer to a reply settles.
ReplySettled ==
    /\ \E task \in botTasks, send \in SendMessageOutcomes :
          /\ task.kind = "reply"
          /\ LET b == [Bot EXCEPT !.tasks = @ \ {task}] IN
             BotBecomes(IF send = "sent" THEN b
                        ELSE onMessageCatch(b, task))
    /\ UNCHANGED updateId
    /\ BotRest

\* The listener after sendTransaction settled: TRANSACTION_SENT, or
\* TRANSACTION_FAILED from the inner catch, or the outer catch when the
\* last of these messages cannot be sent.
onMessageTransactionSettled(b, task, tx, send1, send2) ==
    LET chatId == task.msg.chat
        failed == sendMessage(b, chatId, "TRANSACTION_FAILED")
    IN
    IF tx = "hash"
    THEN IF send1 = "sent" THEN sendMessage(b, chatId, "TRANSACTION_SENT")
         ELSE IF send2 = "sent" THEN failed
         ELSE onMessageCatch(failed, task)
    ELSE IF send1 = "sent" THEN failed
         ELSE onMessageCatch(failed, task)

SendTransactionSettled ==
    /\ \E task \in botTasks, tx \in SendOutcomes,
          send1 \in SendMessageOutcomes, send2 \in SendMessageOutcomes :
          /\ task.kind = "sendTransaction"
          /\ BotBecomes(onMessageTransactionSettled(
                            [Bot EXCEPT !.tasks = @ \ {task}],
                            task, tx, send1, send2))
    /\ UNCHANGED updateId
    /\ BotRest

\* The oldest armed timer fires (all timers have the same delay).
TimeoutFires ==
    /\ timers # <<>>
    /\ BotBecomes(onTimeout([Bot EXCEPT
                                !.timers = Tail(@),
                                !.transcript[Head(timers).id].fired = TRUE],
                            Head(timers)))
    /\ UNCHANGED updateId
    /\ BotRest

\* ------------------------------------------------------------------------
\* The server process with its policy engine, next to the Telegram bot
\* ------------------------------------------------------------------------

\* The pinned policies the server is started against.
ServerRemotes ==
    { p \in PolicyShapes :
        /\ Len(p.rules) = 1
        /\ firstRuleConditionCount(p.rules) \in {3, 4} }
    \cup {None}

ServerInit ==
    /\ env \in Environments
    /\ remote \in ServerRemotes
    /\ (env.policyId = <<>> => remote = None)
    /\ posted = <<>>
    /\ policyIds = <<>>
    /\ initialized = FALSE
    /\ pmPc = "idle"
    /\ initResult = None
    /\ fetched = None
    /\ ProcessNotStarted
    /\ ServiceEmpty
    /\ pools = {}

StartupNext ==
    \/ ServerBoot
    \/ ServerGetPolicyResolved
    \/ ServerGetPolicyRejected
    \/ ServerCreatePolicyResolved
    \/ ServerCreatePolicyRejected
    \/ ServerStart

\* The server process and the requests it serves.
ServerNext ==
    \/ StartupNext
    \/ ApiConnect
    \/ ApiTransact
    \/ ApiDisconnect
    \/ ApiApprove
    \/ gracefulShutdown

SpecServer == ServerInit /\ [][ServerNext]_vars

\* The two places that create wallets: the server's /api/connect and the
\* Telegram bot's /connect, on the same custody service.
WalletsNext ==
    \/ StartupNext
    \/ ApiConnect
    \/ ApiDisconnect
    \/ handleConnect

SpecWallets == ServerInit /\ [][WalletsNext]_vars

\* The sessions of the server and of the bot: connect, transact,
\* disconnect and shutdown.
SessionsNext ==
    \/ ServerBoot
    \/ ServerCreatePolicyResolved
    \/ ServerCreatePolicyRejected
    \/ ServerStart
    \/ ApiConnect
    \/ ApiTransact
    \/ ApiDisconnect
    \/ gracefulShutdown
    \/ handleConnect
    \/ handleDisconnect

\* The process is started with the custody credentials and the signer key,
\* with or without the signer id, and creates its policy.
SessionsInit ==
    /\ ServerInit
    /\ env.credentials
    /\ env.signerKey
    /\ env.policyId = <<>>

SpecSessions == SessionsInit /\ [][SessionsNext]_vars

\* The Telegram bot's /transact conversation. u1 connected through /connect
\* before, u2 did not.
BotConnected == { {"u1"} }

BotInit ==
    /\ env = [signerId |-> "signer-1", credentials |-> TRUE,
              signerKey |-> TRUE, policyId |-> <<>>]
    /\ remote = None
    /\ posted = <<>>
    /\ policyIds = <<>>
    /\ initialized = FALSE
    /\ pmPc = "idle"
    /\ initResult = None
    /\ fetched = None
    /\ ProcessNotStarted
    /\ pools = {}
    /\ \E connected \in BotConnected :
          LET last == IF "u2" \in connected THEN "u2" ELSE "u1" IN
          /\ botSessions = [u \in Users |->
                               IF u \in connected
                               THEN [userId |-> PrivyUserId(u),
                                     walletId |-> WalletId(u)]
                               ELSE NoSession]
          /\ custody = [u \in Users |->
                           IF u \in connected THEN "wallet" ELSE "absent"]
          /\ lastWalletCreate =
                 WalletCreateCall("handleConnect", last, "signer-1", <<>>)
          /\ lastMessage = Message(ChatOf(last), "WALLET_CONNECTED")
    /\ lastServed = "none"
    /\ response = None
    /\ sessions = [u \in Users |-> NoSession]
    /\ lastSendTransaction = NoCall
    /\ sendTransactionCalls = 0
    /\ tokenInfoCache = {}
    /\ viemClients = {}
    /\ discoverPc = "idle"
    /\ params = None
    /\ currencies = <<>>
    /\ tokenInfos = <<>>
    /\ probes = <<>>
    /\ reads = <<>>
    /\ discovery = None
    /\ previous = None
    /\ mintPc = "idle"
    /\ mint = None
    /\ mintResult = None
    /\ methodArgs = None
    /\ methodResult = None
    /\ pendingConfirmations = [u \in Users |-> None]
    /\ messageHandlerSetup = FALSE
    /\ timers = <<>>
    /\ nextTimeoutId = 1
    /\ botTasks = {}
    /\ updateId = 0
    /\ transcript = <<>>

BotNext ==
    \/ TransactCommand
    \/ MessageReceived
    \/ CommandSettled
    \/ PromptSettled
    \/ ReplySettled
    \/ SendTransactionSettled
    \/ TimeoutFires

SpecBot == BotInit /\ [][BotNext]_vars

\* The /transact conversation next to /disconnect. Telegram delivers
\* /disconnect of user u in the user's chat: the library emits 'message'
\* first, so the listener takes the command for a reply when a confirmation
\* is pending in that chat, then handleDisconnect runs.
TextDisconnect == <<"/", "d", "i", "s", "c", "o", "n", "n", "e", "c", "t">>

DisconnectCommandOf(u, send) ==
    /\ updateId < MaxUpdates
    /\ updateId' = updateId + 1
    /\ LET msg == Msg(u, ChatOf(u), TextDisconnect)
           b == onMessage(Bot, updateId', msg)
       IN /\ pendingConfirmations' = b.pending
          /\ messageHandlerSetup' = b.setup
          /\ timers' = b.timers
          /\ nextTimeoutId' = b.nextId
          /\ botTasks' = b.tasks
          /\ lastSendTransaction' = b.lastTx
          /\ transcript' = Responded(b.transcript, u, ChatOf(u))
    /\ handleDisconnectOf(u, send)

DisconnectCommand ==
    /\ \E u \in Users, send \in SendMessageOutcomes :
          DisconnectCommandOf(u, send)
    /\ UNCHANGED <<policyVars, processVars, lastServed, response, sessions,
                   custody, lastWalletCreate, sendTransactionCalls, mintVars,
                   poolVars, positionVars, methodVars>>

BotSessionsNext ==
    \/ TransactCommand
    \/ MessageReceived
    \/ CommandSettled
    \/ PromptSettled
    \/ ReplySettled
    \/ SendTransactionSettled
    \/ TimeoutFires
    \/ DisconnectCommand

SpecBotSessions == BotInit /\ [][BotSessionsNext]_vars


\* ------------------------------------------------------------------------
\* The mint service on its own: pool discovery called any number of times
\* ------------------------------------------------------------------------

\* The fees and tick spacings requests name; <<>> is a field left out.
FeeInputs == {<<>>, <<500>>, <<3000>>, <<10000>>}
TickSpacingInputs == {<<>>, <<60>>}

\* The tokens discovery requests name: one token in both writings and
\* another one.
DiscoverTokenInputs ==
    { Addr(USDC, "lower"), Addr(USDC, "checksum"), Addr(WETH, "lower") }

DiscoveryParams ==
    [ token0 : DiscoverTokenInputs, token1 : DiscoverTokenInputs,
      chainId : ChainInputs,
      fee : FeeInputs, tickSpacing : TickSpacingInputs ]

\* The pools a chain can hold for the pair: any of the three standard tiers.
PoolWorlds == SUBSET {<<500, 10>>, <<3000, 60>>, <<10000, 200>>}

DiscoverInit ==
    /\ env = [signerId |-> "signer-1", credentials |-> TRUE,
              signerKey |-> TRUE, policyId |-> <<>>]
    /\ remote = None
    /\ posted = <<>>
    /\ policyIds = <<>>
    /\ initialized = FALSE
    /\ pmPc = "idle"
    /\ initResult = None
    /\ fetched = None
    /\ ProcessNotStarted
    /\ ServiceEmpty
    /\ pools \in PoolWorlds

DiscoverPool ==
    /\ \E p \in DiscoveryParams : discoverPoolBegin(p)
    /\ UNCHANGED <<policyVars, processVars, serviceVars, positionVars, methodVars, botVars>>

DiscoverTokenInfoSettled ==
    /\ \E read0, read1 \in TokenReadOutcomes :
          discoverPoolTokenInfoSettled(read0, read1)
    /\ UNCHANGED <<policyVars, processVars, serviceVars, positionVars, methodVars, botVars>>

DiscoverPoolStateSettled ==
    /\ \E read \in PoolReadOutcomes : discoverPoolStateSettled(read)
    /\ UNCHANGED <<policyVars, processVars, serviceVars, positionVars, methodVars, botVars>>

DiscoverNext ==
    \/ DiscoverPool
    \/ DiscoverTokenInfoSettled
    \/ DiscoverPoolStateSettled

SpecDiscover == DiscoverInit /\ [][DiscoverNext]_vars

\* ------------------------------------------------------------------------
\* The running server with one user connected: one /api/v4/mint request
\* from its arrival to its result, and /api/disconnect at any time
\* ------------------------------------------------------------------------

\* The token pairs mint requests name: in the pool's order, in the other
\* order with another writing, with the native asset on either side, and
\* one token twice.
MintPairs ==
    { <<Addr(USDC, "lower"), Addr(WETH, "lower")>>,
      <<Addr(WETH, "lower"), Addr(USDC, "checksum")>>,
      <<NATIVE_ETH_ADDRESS, Addr(USDC, "lower")>>,
      <<Addr(USDC, "checksum"), NATIVE_ETH_ADDRESS>>,
      <<Addr(USDC, "lower"), Addr(USDC, "checksum")>> }

\* The desired amounts, in the smallest units of the tokens.
MintAmounts == { <<"1", "2">>, <<"2", "1">> }

MintParams ==
    { [ token0 |-> pair[1], token1 |-> pair[2],
        amount0Desired |-> amounts[1], amount1Desired |-> amounts[2],
        chainId |-> chainId ] :
      pair \in MintPairs, amounts \in MintAmounts, chainId \in ChainInputs }

\* The pools the chain holds for a pair.
MintPoolWorlds == { {}, {<<500, 10>>}, {<<3000, 60>>, <<10000, 200>>} }

\* The server after a start-up that created the policy, serving, with the
\* session of u1 that /api/connect stored.
MintInit ==
    /\ env = [signerId |-> "signer-1", credentials |-> TRUE,
              signerKey |-> TRUE, policyId |-> <<>>]
    /\ remote = None
    /\ posted = <<getPolicyDefinition("signer-1")>>
    /\ policyIds = <<PolicyId(1)>>
    /\ initialized = TRUE
    /\ pmPc = "idle"
    /\ initResult = Success(<<PolicyId(1)>>)
    /\ fetched = None
    /\ serverPc = "listening"
    /\ exitCode = <<>>
    /\ walletService = [policyIds |-> <<PolicyId(1)>>]
    /\ routes = TRUE
    /\ listening = TRUE
    /\ lastServed = "connect"
    /\ response = Response("connect", "u1", None, TRUE, "")
    /\ sessions = [u \in Users |-> IF u = "u1" THEN Session(u) ELSE NoSession]
    /\ custody = [u \in Users |-> IF u = "u1" THEN "wallet" ELSE "absent"]
    /\ lastWalletCreate = WalletCreateCall("WalletService", "u1", "signer-1",
                                           <<PolicyId(1)>>)
    /\ lastSendTransaction = NoCall
    /\ sendTransactionCalls = 0
    /\ botSessions = [u \in Users |-> NoSession]
    /\ tokenInfoCache = {}
    /\ viemClients = {}
    /\ pools \in MintPoolWorlds
    /\ discoverPc = "idle"
    /\ params = None
    /\ currencies = <<>>
    /\ tokenInfos = <<>>
    /\ probes = <<>>
    /\ reads = <<>>
    /\ discovery = None
    /\ previous = None
    /\ mintPc = "idle"
    /\ mint = None
    /\ mintResult = None
    /\ methodArgs = None
    /\ methodResult = None
    /\ BotIdle

ApiMint ==
    /\ Serving
    /\ mintPc = "idle"
    /\ \E u \in Users, p \in MintParams : mintPositionBegin(u, p)
    /\ lastServed' = "mint"
    /\ UNCHANGED <<policyVars, processVars, response, sessions, custody,
                   lastWalletCreate, lastSendTransaction,
                   sendTransactionCalls, botSessions,
                   methodVars, botVars>>

MintTokenInfoSettled ==
    /\ mintPc = "discover"
    /\ \E read0, read1 \in TokenReadOutcomes :
          discoverPoolTokenInfoSettled(read0, read1)
    /\ mintPositionDiscovering
    /\ UNCHANGED <<policyVars, processVars, serviceVars, methodVars, botVars>>

MintPoolStateSettled ==
    /\ mintPc = "discover"
    /\ \E read \in PoolReadOutcomes : discoverPoolStateSettled(read)
    /\ mintPositionDiscovering
    /\ UNCHANGED <<policyVars, processVars, serviceVars, methodVars, botVars>>

MintBalancesSettled ==
    /\ \E read0, read1 \in AmountReadOutcomes :
          mintPositionBalancesSettled(read0, read1)
    /\ UNCHANGED <<policyVars, processVars, serviceVars, mintVars, poolVars,
                   methodVars, botVars>>

MintAllowance0Settled ==
    /\ \E read \in AmountReadOutcomes : mintPositionAllowance0Settled(read)
    /\ UNCHANGED <<policyVars, processVars, serviceVars, tokenInfoCache,
                   poolVars, methodVars, botVars>>

MintAllowance1Settled ==
    /\ \E read \in AmountReadOutcomes, send \in SendOutcomes :
          mintPositionAllowance1Settled(read, send)
    /\ UNCHANGED <<policyVars, processVars, lastServed, response, sessions,
                   custody, lastWalletCreate, botSessions, tokenInfoCache,
                   poolVars, methodVars, botVars>>

MintNext ==
    \/ ApiMint
    \/ MintTokenInfoSettled
    \/ MintPoolStateSettled
    \/ MintBalancesSettled
    \/ MintAllowance0Settled
    \/ MintAllowance1Settled
    \/ ApiDisconnect

SpecMint == MintInit /\ [][MintNext]_vars

\* An approval and then a mint on the same service: the two requests of
\* the core that submit a transaction. The chain holds the 500 pool.
SubmitInit ==
    /\ MintInit
    /\ pools = {<<500, 10>>}

\* POST /api/v4/approve as the first request served.
SubmitApprove ==
    /\ mintPc = "idle"
    /\ lastServed = "connect"
    /\ ApiApprove

SubmitNext ==
    \/ SubmitApprove
    \/ ApiMint
    \/ MintTokenInfoSettled
    \/ MintPoolStateSettled
    \/ MintBalancesSettled
    \/ MintAllowance0Settled
    \/ MintAllowance1Settled

SpecSubmit == SubmitInit /\ [][SubmitNext]_vars

\* ------------------------------------------------------------------------
\* Two methods of the mint service on their own, called once with arguments
\* chosen at the start
\* ------------------------------------------------------------------------

\* The largest tick spacing a pool can have.
MaxTickSpacing == 32767

CheckAllowanceArgs ==
    [ method : {"checkAllowance"},
      walletAddress : {WalletAddress(u) : u \in Users},
      token : {NATIVE_ETH_ADDRESS, Addr(USDC, "lower"), Addr(WETH, "lower")},
      spender : { V4_CHAIN_CONFIGS[1].positionManagerAddress,
                  V4_CHAIN_CONFIGS[8453].positionManagerAddress },
      chainId : {1, 8453, 31337} ]

CalculateFullRangeTicksArgs ==
    [ method : {"calculateFullRangeTicks"}, tickSpacing : 1..MaxTickSpacing ]

MethodsInit ==
    /\ env = [signerId |-> "signer-1", credentials |-> TRUE,
              signerKey |-> TRUE, policyId |-> <<>>]
    /\ remote = None
    /\ posted = <<>>
    /\ policyIds = <<>>
    /\ initialized = FALSE
    /\ pmPc = "idle"
    /\ initResult = None
    /\ fetched = None
    /\ ProcessNotStarted
    /\ ServiceIdle
    /\ pools = {}
    /\ viemClients \in {{}, {1}}
    /\ methodArgs \in CheckAllowanceArgs \cup CalculateFullRangeTicksArgs
    /\ methodResult = None
    /\ BotIdle

CheckAllowance ==
    /\ methodArgs.method = "checkAllowance"
    /\ methodResult = None
    /\ \E read \in AmountReadOutcomes :
          LET r == checkAllowance(methodArgs.walletAddress, methodArgs.token,
                                  methodArgs.spender, methodArgs.chainId, read)
          IN /\ methodResult' = r
             /\ viemClients' = r.clients
    /\ UNCHANGED <<policyVars, processVars, serviceVars, tokenInfoCache,
                   poolVars, positionVars, methodArgs, botVars>>

CalculateFullRangeTicks ==
    /\ methodArgs.method = "calculateFullRangeTicks"
    /\ methodResult = None
    /\ methodResult' = calculateFullRangeTicks(methodArgs.tickSpacing)
    /\ UNCHANGED <<policyVars, processVars, serviceVars, mintVars,
                   poolVars, positionVars, methodArgs, botVars>>

MethodsNext ==
    \/ CheckAllowance
    \/ CalculateFullRangeTicks

SpecMethods == MethodsInit /\ [][MethodsNext]_vars

\* ------------------------------------------------------------------------
\* getTokenInfo on its own, called several times on one service
\* ------------------------------------------------------------------------

\* The number of getTokenInfo calls of a behaviour.
MaxLookups == 3

\* The tokens and chains looked up: one token in both writings and another
\* one, on two supported chains.
LookupTokens ==
    { Addr(USDC, "lower"), Addr(USDC, "checksum"), Addr(WETH, "lower") }

LookupChains == {1, 8453}

TokenInfoInit ==
    /\ env = [signerId |-> "signer-1", credentials |-> TRUE,
              signerKey |-> TRUE, policyId |-> <<>>]
    /\ remote = None
    /\ posted = <<>>
    /\ policyIds = <<>>
    /\ initialized = FALSE
    /\ pmPc = "idle"
    /\ initResult = None
    /\ fetched = None
    /\ ProcessNotStarted
    /\ ServiceIdle
    /\ pools = {}
    /\ viemClients = {}
    /\ methodArgs = <<>>
    /\ methodResult = <<>>
    /\ BotIdle

\* The number of getTokenInfo calls of a behaviour whose reads fail in
\* every way.
MaxFailingLookups == 2

\* One getTokenInfo call runs to its end: methodArgs lists the calls made
\* and what the chain would answer to each, methodResult what each returned
\* or threw.
getTokenInfoCall(outcomes, max) ==
    /\ Len(methodArgs) < max
    /\ \E token \in LookupTokens, chainId \in LookupChains,
          outcome \in outcomes :
          LET r == getTokenInfo(token, chainId, outcome) IN
          /\ methodArgs' = Append(methodArgs,
                                  [ tokenAddress |-> token, chainId |-> chainId,
                                    outcome |-> outcome ])
          /\ methodResult' =
                Append(methodResult,
                       IF r.ok
                       THEN [ ok |-> TRUE, symbol |-> r.symbol,
                              decimals |-> r.decimals ]
                       ELSE [ ok |-> FALSE, error |-> r.error ])
          /\ tokenInfoCache' = r.cache
          /\ viemClients' = r.clients
    /\ UNCHANGED <<policyVars, processVars, serviceVars, poolVars,
                   positionVars, botVars>>

GetTokenInfo == getTokenInfoCall(TokenReadOutcomes, MaxLookups)

TokenInfoNext == GetTokenInfo

SpecTokenInfo == TokenInfoInit /\ [][TokenInfoNext]_vars

\* The same calls against a chain whose reads fail in every way.
GetTokenInfoFailing ==
    getTokenInfoCall(TokenReadFailures \cup {"answers"}, MaxFailingLookups)

TokenErrorsNext == GetTokenInfoFailing

SpecTokenErrors == TokenInfoInit /\ [][TokenErrorsNext]_vars

\* ------------------------------------------------------------------------
\* UniswapV4Service: the positions of a wallet
\* ------------------------------------------------------------------------

\* Object.keys of an object with integer keys: ascending.
RECURSIVE ObjectKeys(_)
ObjectKeys(S) ==
    IF S = {} THEN <<>>
    ELSE LET m == CHOOSE x \in S : \A y \in S : x <= y
         IN <<m>> \o ObjectKeys(S \ {m})

\* What fetchPositionData does for the token ids the subgraph lists.
FetchOutcomes ==
    {<<>>, <<"ok">>, <<"fails">>, <<"ok", "fails">>, <<"fails", "ok">>}

\* What a chain does when queried: the subgraph request fails, or it lists
\* token ids, each of which is then read from the chain.
ChainOutcomes ==
    [graph : {"fails"}, fetches : {<<>>}]
    \cup [graph : {"answers"}, fetches : FetchOutcomes]

\* The chains of the configuration and what each does when queried.
ChainWorlds == [DOMAIN V4_CHAIN_CONFIGS -> ChainOutcomes]

V4Position(chainId, tokenId) ==
    [ chainId |-> chainId, tokenId |-> tokenId,
      totalValueUsd |-> 10 * tokenId, feesUsd |-> tokenId ]

\* The positions whose data could be read, in the order of the token ids.
RECURSIVE readPositions(_, _, _)
readPositions(chainId, fetches, tokenId) ==
    IF tokenId > Len(fetches) THEN <<>>
    ELSE (IF fetches[tokenId] = "ok"
          THEN <<V4Position(chainId, tokenId)>> ELSE <<>>)
         \o readPositions(chainId, fetches, tokenId + 1)

\* getPositionsForChain(walletAddress, chainId), as Promise.allSettled
\* reports it.
getPositionsForChain(walletAddress, chainId, world) ==
    IF ~hasChainConfig(chainId)
    THEN [ status |-> "rejected", chainId |-> chainId,
           reason |-> "Unsupported chainId" ]
    ELSE IF world[chainId].graph = "fails"
    THEN [ status |-> "rejected", chainId |-> chainId,
           reason |-> "GraphQL query failed" ]
    ELSE [ status |-> "fulfilled", chainId |-> chainId,
           value |-> readPositions(chainId, world[chainId].fetches, 1) ]

\* chainId ? [chainId] : Object.keys(V4_CHAIN_CONFIGS).map(Number); a
\* chainId left out is 0 here, falsy like undefined.
targetChains(chainId) ==
    IF chainId # 0 THEN <<chainId>>
    ELSE ObjectKeys(DOMAIN V4_CHAIN_CONFIGS)

\* Promise.allSettled(targetChains.map(getPositionsForChain))
chainResults(walletAddress, chainId, world) ==
    LET targets == targetChains(chainId) IN
    [ idx \in 1..Len(targets) |->
        getPositionsForChain(walletAddress, targets[idx], world) ]

\* The chains getPositionsForChain made a viem client for: those whose
\* subgraph listed at least one token id.
clientsCreated(chainId, world) ==
    LET targets == targetChains(chainId) IN
    { targets[idx] : idx \in { i \in 1..Len(targets) :
                                 /\ hasChainConfig(targets[i])
                                 /\ world[targets[i]].graph = "answers"
                                 /\ world[targets[i]].fetches # <<>> } }

RECURSIVE collectPositions(_, _)
collectPositions(results, idx) ==
    IF idx > Len(results) THEN <<>>
    ELSE (IF results[idx].status = "fulfilled"
          THEN results[idx].value ELSE <<>>)
         \o collectPositions(results, idx + 1)

RECURSIVE collectErrors(_, _)
collectErrors(results, idx) ==
    IF idx > Len(results) THEN <<>>
    ELSE (IF results[idx].status = "rejected"
          THEN << [ chainId |-> results[idx].chainId,
                    error |-> results[idx].reason ] >>
          ELSE <<>>)
         \o collectErrors(results, idx + 1)

RECURSIVE sumOf(_, _)
sumOf(positions, field) ==
    IF positions = <<>> THEN 0
    ELSE Head(positions)[field] + sumOf(Tail(positions), field)

getPositions_FailFast(walletAddress, chainId, world) ==
    LET results == chainResults(walletAddress, chainId, world)
        positions == collectPositions(results, 1)
        errors == collectErrors(results, 1)
    IN
    IF errors # <<>>
    THEN [ success |-> FALSE, positions |-> <<>>, totalValueUsd |-> 0,
           totalFeesUsd |-> 0, chainErrors |-> [value |-> errors] ]
    ELSE [ success |-> TRUE, positions |-> positions,
           totalValueUsd |-> sumOf(positions, "totalValueUsd"),
           totalFeesUsd |-> sumOf(positions, "feesUsd"),
           chainErrors |-> None ]

\* getPositions(walletAddress, chainId?): chainErrors is None when it is
\* left undefined.
getPositions(walletAddress, chainId, world) ==
    LET results == chainResults(walletAddress, chainId, world)
        positions == collectPositions(results, 1)
        errors == collectErrors(results, 1)
    IN
    [ success |-> TRUE, positions |-> positions,
      totalValueUsd |-> sumOf(positions, "totalValueUsd"),
      totalFeesUsd |-> sumOf(positions, "feesUsd"),
      chainErrors |-> IF errors # <<>> THEN [value |-> errors] ELSE None ]

GetPositionsArgs ==
    [ method : {"getPositions"},
      walletAddress : {WalletAddress(u) : u \in Users},
      chainId : {0, 1, 8453, 99999} ]

PositionsInit ==
    /\ env = [signerId |-> "signer-1", credentials |-> TRUE,
              signerKey |-> TRUE, policyId |-> <<>>]
    /\ remote = None
    /\ posted = <<>>
    /\ policyIds = <<>>
    /\ initialized = FALSE
    /\ pmPc = "idle"
    /\ initResult = None
    /\ fetched = None
    /\ ProcessNotStarted
    /\ ServiceIdle
    /\ pools = {}
    /\ viemClients = {}
    /\ methodArgs \in GetPositionsArgs
    /\ methodResult = None
    /\ BotIdle

\* One call of getPositions: what the chains settled with, the viem
\* clients the service made, and what the call returned.
GetPositions ==
    /\ methodArgs.method = "getPositions"
    /\ methodResult = None
    /\ \E world \in ChainWorlds :
          methodResult' =
              [ settled |-> chainResults(methodArgs.walletAddress,
                                         methodArgs.chainId, world),
                clients |-> clientsCreated(methodArgs.chainId, world),
                returned |-> getPositions(methodArgs.walletAddress,
                                          methodArgs.chainId, world) ]
    /\ UNCHANGED <<policyVars, processVars, serviceVars, mintVars,
                   poolVars, positionVars, methodArgs, botVars>>

PositionsNext == GetPositions

SpecPositions == PositionsInit /\ [][PositionsNext]_vars

\* ------------------------------------------------------------------------
\* Properties of the policy engine
\* ------------------------------------------------------------------------

\* The number a string of decimal digits writes, for digit strings that fit.
RECURSIVE DecimalValue(_)
DecimalValue(digits) ==
    IF digits = <<>> THEN 0
    ELSE 10 * DecimalValue(SubSeq(digits, 1, Len(digits) - 1))
         + digits[Len(digits)]

Range(seq) == { seq[i] : i \in 1..Len(seq) }

\* C1: with a pinned policy id, a fetched policy whose owner_id is not the
\* configured signer id makes initialize return success=false and leaves
\* `initialized` as it was, whatever the rules and conditions of the policy.
C1_OwnerMismatchFails ==
    [][ ( /\ pmPc = "getPolicy"
          /\ pmPc' = "idle"
          /\ fetched' # None
          /\ fetched'.owner_id # env.signerId )
        => ( /\ initResult'.success = FALSE
             /\ initialized' = initialized ) ]_vars

\* C1 witness: a fresh manager fetched a policy with exactly the expected
\* counts but a foreign owner, returned failure and is still uninitialized.
C1_Witness ==
    /\ pmPc = "idle"
    /\ fetched # None
    /\ fetched.owner_id # env.signerId
    /\ Len(fetched.rules) = 1
    /\ Len(fetched.rules[1].conditions) = 3
    /\ initResult.success = FALSE
    /\ initResult.error = "Policy owner mismatch"
    /\ ~initialized

C4_InitializeIdempotent ==
    [][ (initialized /\ pmPc # "idle" /\ pmPc' = "idle")
        => ( /\ initialized'
             /\ policyIds' = policyIds
             /\ posted' = posted ) ]_vars

C2_ServeOnlyAfterPolicySuccess ==
    /\ (walletService # None \/ routes \/ listening \/ lastServed # "none")
        => (initResult # None /\ initResult.success /\ initialized)
    /\ (serverPc # "awaitInit" /\ initResult # None /\ ~initResult.success)
        => ( /\ serverPc = "exited"
             /\ exitCode = <<1>>
             /\ lastServed = "none"
             /\ ~listening )
    /\ (serverPc \in {"boot", "awaitInit"} \/ exitCode = <<1>>)
        => getWalletService = "WalletService not initialized"

\* C2 witness: the pinned policy failed validation, the process exited with
\* code 1 and never served a request.
C2_Witness ==
    /\ serverPc = "exited"
    /\ exitCode = <<1>>
    /\ initResult # None
    /\ ~initResult.success
    /\ initResult.error = "Policy owner mismatch"
    /\ lastServed = "none"
    /\ getWalletService = "WalletService not initialized"

\* C5: every wallets().create call the custody service gets carries the
\* policy ids of the successful initialization, and never an empty list.
C5_WalletCreateCarriesPolicyIds ==
    lastWalletCreate # NoCall =>
        ( /\ lastWalletCreate.override_policy_ids # <<>>
          /\ initialized
          /\ lastWalletCreate.override_policy_ids = policyIds )

\* Whether the policy's contract allowlist holds the address, in any
\* letter case.
InContractAllowlist(address) ==
    \E a \in Range(getContractAllowlistCondition.value) : a.hex = address.hex

\* C7: the recipient of every transaction approveToken submits is an
\* address of the policy's contract allowlist.
C7_ApproveRecipientAllowlisted ==
    ( /\ lastSendTransaction # NoCall
      /\ "functionName" \in DOMAIN lastSendTransaction.data
      /\ lastSendTransaction.data.functionName = "approve" )
    => InContractAllowlist(lastSendTransaction.to)

\* ------------------------------------------------------------------------
\* Properties of pool discovery
\* ------------------------------------------------------------------------

\* C8: a pool result names the two requested tokens in lower case with
\* currency0 the smaller address, and a call with the two tokens swapped,
\* in any letter case, returns the same currency0 and currency1 as the call
\* before it, with exists true and with exists false alike.
C8_CanonicalCurrencyOrder ==
    (discoverPc = "done" /\ discovery.success) =>
        LET poolKey == discovery.pool.poolKey IN
        /\ poolKey.currency0.form = "lower"
        /\ poolKey.currency1.form = "lower"
        /\ codeUnitRank(poolKey.currency0.hex)
              < codeUnitRank(poolKey.currency1.hex)
        /\ {poolKey.currency0.hex, poolKey.currency1.hex}
              = {params.token0.hex, params.token1.hex}
        /\ ( /\ previous # None
             /\ previous.chainId = params.chainId
             /\ previous.token0.hex = params.token1.hex
             /\ previous.token1.hex = params.token0.hex )
           => ( /\ poolKey.currency0 = previous.currency0
                /\ poolKey.currency1 = previous.currency1 )

\* C8 witness: (A, B) was discovered with A in its checksummed writing, then
\* (B, A) with A in lower case, and the second call returned an existing pool
\* whose currency0 is the second token of the request.
C8_Witness ==
    /\ discoverPc = "done"
    /\ discovery.success
    /\ discovery.pool.exists
    /\ previous # None
    /\ previous.token0 = Addr(USDC, "checksum")
    /\ previous.token1 = Addr(WETH, "lower")
    /\ params.token0 = Addr(WETH, "lower")
    /\ params.token1 = Addr(USDC, "lower")
    /\ discovery.pool.poolKey.currency0 = Addr(USDC, "lower")
    /\ discovery.pool.poolKey.currency0 = previous.currency0

\* The places in FEE_TIERS of the tiers whose pool exists on the chain.
ExistingTiers ==
    { i \in 1..Len(FEE_TIERS) :
        <<FEE_TIERS[i].fee, FEE_TIERS[i].tickSpacing>> \in pools }

\* C9: without fee and tickSpacing the tiers 500, 3000, 10000 are probed
\* in that order, the pool returned is the first tier in that order whose
\* pool exists, and no tier after it is probed.
C9_FirstExistingTierWins ==
    ( /\ discoverPc = "done"
      /\ params.fee = <<>>
      /\ params.tickSpacing = <<>>
      /\ discovery.success )
    => ( /\ \A i \in 1..Len(probes) :
              /\ i <= 3
              /\ probes[i].fee = <<500, 3000, 10000>>[i]
         /\ IF ExistingTiers = {}
            THEN ~discovery.pool.exists /\ Len(probes) = 3
            ELSE \E first \in ExistingTiers :
                    /\ \A i \in ExistingTiers : first <= i
                    /\ discovery.pool.exists
                    /\ discovery.pool.poolKey.fee = <<500, 3000, 10000>>[first]
                    /\ Len(probes) = first )

\* C10: with a fee given at most one pool key is probed, exactly one when a
\* pool result is returned; its fee is the requested one and its tick
\* spacing the explicit one, or else 10 for 500, 60 for 3000, 200 for 10000.
C10_OneTierWhenFeeGiven ==
    (params # None /\ params.fee # <<>>) =>
        LET fee == params.fee[1]
            derived == CASE fee = 500 -> 10
                         [] fee = 3000 -> 60
                         [] fee = 10000 -> 200
            spacing == IF params.tickSpacing # <<>>
                       THEN params.tickSpacing[1] ELSE derived
        IN
        /\ Len(probes) <= 1
        /\ \A i \in 1..Len(probes) :
              probes[i].fee = fee /\ probes[i].tickSpacing = spacing
        /\ (discoverPc = "done" /\ discovery.success) =>
              ( /\ Len(probes) = 1
                /\ discovery.pool.poolKey.fee = fee
                /\ discovery.pool.poolKey.tickSpacing = spacing )

\* C10 witness: fee 10000 without tick spacing found the pool of the key
\* (10000, 200) with one probe, on a chain that also has the 500 and the
\* 3000 pool.
C10_Witness ==
    /\ discoverPc = "done"
    /\ params.fee = <<10000>>
    /\ params.tickSpacing = <<>>
    /\ pools = {<<500, 10>>, <<3000, 60>>, <<10000, 200>>}
    /\ discovery.success
    /\ discovery.pool.exists
    /\ Len(probes) = 1
    /\ probes[1].tickSpacing = 200
    /\ discovery.pool.poolKey.tickSpacing = 200

\* The errors that say the request itself is invalid.
ValidationErrors ==
    { "tickSpacing cannot be specified without fee",
      "Unsupported chain ID",
      "token0 and token1 must be different addresses",
      "Invalid token address" }

\* C11: a call with a tickSpacing and without a fee ends with a validation
\* error, for any chain and any tokens, and never with a pool result.
C11_TickSpacingWithoutFeeIsInvalid ==
    ( /\ discoverPc = "done"
      /\ params.fee = <<>>
      /\ params.tickSpacing # <<>> )
    => ( /\ ~discovery.success
         /\ discovery.error[1] \in ValidationErrors )

\* C12: when the reads of every tier of the call met the zero price, the
\* result is a success with exists false, sqrtPriceX96 "0", liquidity "0"
\* and the key of the ordered currencies with the requested fee and tick
\* spacing, 3000 and 60 when none was requested.
C12_NoPoolIsSuccess ==
    ( /\ discoverPc = "done"
      /\ probes # <<>>
      /\ \A i \in 1..Len(reads) : reads[i] = "zero" )
    => ( /\ discovery.success
         /\ ~discovery.pool.exists
         /\ discovery.pool.sqrtPriceX96 = "0"
         /\ discovery.pool.liquidity = "0"
         /\ Len(reads) = Len(probes)
         /\ Len(probes) = IF params.fee = <<>> THEN 3 ELSE 1
         /\ LET poolKey == discovery.pool.poolKey IN
            /\ poolKey.currency0.form = "lower"
            /\ poolKey.currency1.form = "lower"
            /\ codeUnitRank(poolKey.currency0.hex)
                  < codeUnitRank(poolKey.currency1.hex)
            /\ {poolKey.currency0.hex, poolKey.currency1.hex}
                  = {params.token0.hex, params.token1.hex}
            /\ poolKey.fee = IF params.fee # <<>> THEN params.fee[1] ELSE 3000
            /\ poolKey.tickSpacing =
                  IF params.tickSpacing # <<>> THEN params.tickSpacing[1]
                  ELSE IF params.fee = <<>> THEN 60
                  ELSE CASE params.fee[1] = 500 -> 10
                         [] params.fee[1] = 3000 -> 60
                         [] params.fee[1] = 10000 -> 200 )

\* C12 witness: no fee was requested, the chain has no pool of the pair,
\* the three tiers were probed and the result is the default key 3000/60
\* with exists false.
C12_Witness ==
    /\ discoverPc = "done"
    /\ params.fee = <<>>
    /\ pools = {}
    /\ reads = <<"zero", "zero", "zero">>
    /\ Len(probes) = 3
    /\ discovery.success
    /\ ~discovery.pool.exists
    /\ discovery.pool.poolKey.fee = 3000
    /\ discovery.pool.poolKey.tickSpacing = 60

\* C13: a call one of whose pool-state reads threw ends with an error
\* result, and the read that threw is the last one of the call.
C13_ReadFailureAborts ==
    ( /\ discoverPc \in {"probe", "done"}
      /\ \E i \in 1..Len(reads) : reads[i] = "threw" )
    => ( /\ discoverPc = "done"
         /\ ~discovery.success
         /\ reads[Len(reads)] = "threw"
         /\ Len(reads) = Len(probes) )

\* ------------------------------------------------------------------------
\* Properties of transact and of approvals
\* ------------------------------------------------------------------------

\* C20: a transact of the /api/transact route for a user without session
\* returns SESSION_NOT_FOUND, hands nothing to sendTransaction and leaves
\* the session map as it was.
C20_TransactWithoutSession ==
    [][ ( /\ serverPc' = "listening"
          /\ lastServed' = "transact"
          /\ response'.op = "transact"
          /\ sessions[response'.user] = NoSession )
        => ( /\ ~response'.success
             /\ response'.error = "SESSION_NOT_FOUND"
             /\ lastSendTransaction' = lastSendTransaction
             /\ sessions' = sessions ) ]_vars

\* C20 witness: u2 sent a transaction, then u1, who has no session, asked
\* for one and got SESSION_NOT_FOUND.
C20_Witness ==
    /\ response # None
    /\ response.op = "transact"
    /\ response.user = "u1"
    /\ response.error = "SESSION_NOT_FOUND"
    /\ sessions["u1"] = NoSession
    /\ sessions["u2"] # NoSession
    /\ lastSendTransaction # NoCall
    /\ lastSendTransaction.walletId = WalletId("u2")

\* 2^256 - 1 =
\* 11 5792 0892 3731 6195 4235 7098 5008 6879 0785 3269 9846 6564 0564 0394
\* 5758 4007 9131 2963 9935, in limbs of four decimal digits.
TwoTo256Minus1 ==
    << 11, 5792, 892, 3731, 6195,
       4235, 7098, 5008, 6879, 785,
       3269, 9846, 6564, 564, 394,
       5758, 4007, 9131, 2963, 9935 >>

\* C17: an approval asked with amount 'unlimited' that reached the custody
\* service carries 2^256 - 1 as the allowance of its calldata, whatever the
\* decimals of the token.
C17_UnlimitedIsMaxUint256 ==
    ( /\ response # None
      /\ response.op = "approveToken"
      /\ response.request.amount = "unlimited"
      /\ (response.success \/ response.error = "TRANSACTION_FAILED") )
    => ( /\ lastSendTransaction # NoCall
         /\ lastSendTransaction.data.functionName = "approve"
         /\ lastSendTransaction.to.hex = response.request.token.hex
         /\ Len(lastSendTransaction.data.amount) = 20
         /\ lastSendTransaction.data.amount = TwoTo256Minus1 )

\* C17 witness: an unlimited approval of USDC was submitted with success.
C17_Witness ==
    /\ response # None
    /\ response.op = "approveToken"
    /\ response.request.amount = "unlimited"
    /\ response.request.token.hex = USDC
    /\ response.success
    /\ lastSendTransaction.data.amount = TwoTo256Minus1
    /\ lastSendTransaction.data.amount[1] = 11
    /\ lastSendTransaction.data.amount[20] = 9935

\* ------------------------------------------------------------------------
\* Properties of allowances and full-range ticks
\* ------------------------------------------------------------------------

\* C16: checkAllowance for the native-asset address returns the maximum
\* uint256 value, for any wallet, spender and chain, and issues no network
\* call: it issues no contract read and the chains with a client are the
\* ones there were before the call.
C16_NativeAllowanceWithoutNetwork ==
    [][ ( /\ methodArgs.method = "checkAllowance"
          /\ methodArgs.token = NATIVE_ETH_ADDRESS
          /\ methodResult' # methodResult )
        => ( /\ ~methodResult'.threw
             /\ methodResult'.allowance = TwoTo256Minus1
             /\ methodResult'.readContract = <<>>
             /\ viemClients' = viemClients ) ]_vars

\* The native allowance was asked on a chain that has no client yet, and
\* on a chain the service does not support.
C16_Witness ==
    /\ methodArgs # None
    /\ methodArgs.method = "checkAllowance"
    /\ methodArgs.token = NATIVE_ETH_ADDRESS
    /\ methodArgs.chainId = 31337
    /\ methodArgs.walletAddress = WalletAddress("u2")
    /\ methodResult # None
    /\ methodResult.allowance = TwoTo256Minus1
    /\ viemClients = {}

\* C18: for a tick spacing s, calculateFullRangeTicks(s) returns two
\* multiples of s with tickLower < 0 < tickUpper, both within
\* [-887272, 887272].
C18_FullRangeTicks ==
    ( /\ methodArgs # None
      /\ methodArgs.method = "calculateFullRangeTicks"
      /\ methodResult # None )
    => LET s == methodArgs.tickSpacing
           lower == methodResult.tickLower
           upper == methodResult.tickUpper
       IN /\ lower % s = 0
          /\ upper % s = 0
          /\ lower < 0
          /\ 0 < upper
          /\ -887272 <= lower
          /\ upper <= 887272

\* The ticks of spacing 60, where rounding to the nearest multiple leaves
\* the range and the tick is pulled back by one spacing.
C18_Witness ==
    /\ methodArgs # None
    /\ methodArgs.method = "calculateFullRangeTicks"
    /\ methodArgs.tickSpacing = 60
    /\ methodResult # None
    /\ methodResult.tickLower = -887220
    /\ methodResult.tickUpper = 887220

\* ------------------------------------------------------------------------
\* Properties of mintPosition
\* ------------------------------------------------------------------------

\* The amount of a balance or an allowance below 10000 units.
Units(amount) == amount[Len(amount)]

\* The balance checks of the call returned and found the balance short.
Short(check) == Units(check.balance) < Units(check.required)

Approved(m, token) ==
    \E i \in 1..Len(m.allowances) :
        /\ m.allowances[i].token = token
        /\ Units(m.allowances[i].allowance) >= Units(m.allowances[i].required)

CallerAmount(m, address) ==
    IF m.params.token0.hex = address.hex
    THEN m.params.amount0Desired
    ELSE m.params.amount1Desired

CallerUnits(m, address) ==
    IF CallerAmount(m, address) = "1" THEN 1 ELSE 2

\* C19: the amount the caller gave for a token is the amount applied to
\* that token in the balance checks, the allowance checks, the liquidity
\* derivation and the expectedPosition; the amounts are swapped exactly
\* when the caller's token0 is not the pool's currency0.
C19_AmountsFollowTheirTokens ==
    ( mint # None /\ mint.pool # None )
    => LET key == mint.pool.poolKey IN
       /\ mint.swapped <=> (mint.params.token0.hex # key.currency0.hex)
       /\ ~mint.swapped =>
             /\ mint.amount0DesiredForPool = mint.params.amount0Desired
             /\ mint.amount1DesiredForPool = mint.params.amount1Desired
       /\ mint.amount0DesiredForPool = CallerAmount(mint, key.currency0)
       /\ mint.amount1DesiredForPool = CallerAmount(mint, key.currency1)
       /\ \A i \in 1..Len(mint.balanceChecks) :
             LET c == mint.balanceChecks[i] IN
             /\ c.token = IF i = 1 THEN key.currency0 ELSE key.currency1
             /\ Units(c.required) = CallerUnits(mint, c.token)
       /\ \A i \in 1..Len(mint.allowances) :
             Units(mint.allowances[i].required) =
                 CallerUnits(mint, mint.allowances[i].token)
       /\ mint.position # None =>
             /\ Units(mint.position.amount0) = CallerUnits(mint, key.currency0)
             /\ Units(mint.position.amount1) = CallerUnits(mint, key.currency1)
             /\ Units(mint.position.liquidity.maxLiquidityForAmounts[4])
                    = CallerUnits(mint, key.currency0)
             /\ Units(mint.position.liquidity.maxLiquidityForAmounts[5])
                    = CallerUnits(mint, key.currency1)
       /\ (mintResult # None /\ mintResult.success) =>
             /\ mintResult.expectedPosition.amount0
                    = CallerAmount(mint, key.currency0)
             /\ mintResult.expectedPosition.amount1
                    = CallerAmount(mint, key.currency1)
             /\ mintResult.expectedPosition.liquidity
                    = mint.position.liquidity

\* A minted position of a request that named WETH first with amount 1 and
\* USDC second with amount 2: the position has 2 of currency0 (USDC) and 1
\* of currency1 (WETH).
C19_Witness ==
    /\ mint # None
    /\ mint.params.token0.hex = WETH
    /\ mint.params.amount0Desired = "1"
    /\ mint.params.amount1Desired = "2"
    /\ mint.swapped
    /\ mintResult # None
    /\ mintResult.success
    /\ mintResult.expectedPosition.poolKey.currency0.hex = USDC
    /\ mintResult.expectedPosition.amount0 = "2"
    /\ mintResult.expectedPosition.amount1 = "1"
    /\ Units(mint.position.amount0) = 2

\* ------------------------------------------------------------------------
\* Properties of the sessions
\* ------------------------------------------------------------------------

\* The step served /api/disconnect for user u.
ServedDisconnect(u) ==
    /\ lastServed' = "disconnect"
    /\ response'.op = "disconnect"
    /\ response'.user = u

\* The step cleared all sessions on shutdown.
ShutDown == serverPc # "exited" /\ serverPc' = "exited"

\* C21: after connect(u) succeeds getSession(u) is u's wallet id and
\* address, and stays so until disconnect(u) or clearAllSessions; after
\* disconnect(u) getSession(u) is undefined, stays so until a connect(u)
\* succeeds, and transact(u) returns SESSION_NOT_FOUND meanwhile.
C21_SessionLifetime ==
    [][ \A u \in Users :
          /\ ( /\ lastServed' = "connect" /\ response'.op = "connect"
               /\ response'.user = u /\ response'.success
               /\ response' # response )
             => ( /\ getSession(u)' # NoSession
                  /\ getSession(u)'.walletId = WalletId(u)
                  /\ getSession(u)'.walletAddress = WalletAddress(u) )
          /\ ( getSession(u) # NoSession /\ getSession(u)' # getSession(u) )
             => ( /\ getSession(u)' = NoSession
                  /\ ServedDisconnect(u) \/ ShutDown )
          /\ ( ServedDisconnect(u) /\ response' # response )
             => getSession(u)' = NoSession
          /\ ( getSession(u) = NoSession /\ getSession(u)' # NoSession )
             => ( /\ lastServed' = "connect" /\ response'.op = "connect"
                  /\ response'.user = u /\ response'.success
                  /\ getSession(u)'.walletId = WalletId(u) )
          /\ ( /\ getSession(u) = NoSession
               /\ lastServed' = "transact" /\ response'.op = "transact"
               /\ response'.user = u /\ response' # response )
             => ( /\ response'.error = "SESSION_NOT_FOUND"
                  /\ getSession(u)' = NoSession )
      ]_vars

\* u1 connected through the server, was disconnected, and its transact
\* was answered SESSION_NOT_FOUND.
C21_Witness ==
    /\ lastWalletCreate # NoCall
    /\ lastWalletCreate.by = "WalletService"
    /\ lastWalletCreate.owner = PrivyUserId("u1")
    /\ custody["u1"] = "wallet"
    /\ getSession("u1") = NoSession
    /\ serverPc = "listening"
    /\ response # None
    /\ response.op = "transact"
    /\ response.user = "u1"
    /\ response.error = "SESSION_NOT_FOUND"

\* The step is WalletService.disconnect(u) served by /api/disconnect.
DisconnectStep(u) ==
    /\ ServedDisconnect(u)
    /\ serverPc = "listening" /\ serverPc' = "listening"
    /\ response' # response \/ sessions' # sessions
    /\ UNCHANGED <<botSessions, lastMessage, custody, lastWalletCreate>>

\* The step is the bot's /disconnect of user u.
BotDisconnectStep(u) ==
    /\ lastMessage' # None
    /\ lastMessage'.chatId = ChatOf(u)
    /\ lastMessage'.text \in {"NOT_CONNECTED", "DISCONNECTED", "DISCONNECT_FAILED"}
    /\ lastMessage' # lastMessage \/ botSessions' # botSessions
    /\ UNCHANGED <<sessions, response, lastServed, custody, lastWalletCreate,
                   serverPc>>

ConnectStep(u) ==
    /\ lastServed' = "connect"
    /\ response'.op = "connect"
    /\ response'.user = u
    /\ serverPc = "listening" /\ serverPc' = "listening"
    /\ response' # response \/ sessions' # sessions
    /\ UNCHANGED <<botSessions, lastMessage>>

\* The step is the bot's /connect handler answering u in the user's chat.
BotConnectStep(u) ==
    /\ UNCHANGED <<lastServed, response, sessions, serverPc>>
    /\ lastMessage' # None
    /\ lastMessage'.chatId = ChatOf(u)
    /\ lastMessage'.text \in {"WALLET_CONNECTED", "CONNECTION_FAILED"}
    /\ \/ lastMessage' # lastMessage
       \/ botSessions' # botSessions
       \/ custody' # custody
       \/ lastWalletCreate' # lastWalletCreate

NotInitializedError ==
    [threw |-> TRUE, error |-> "PolicyManager not initialized"]

\* C24: getPolicyIds throws 'PolicyManager not initialized' unless an
\* initialize call before it returned success: it throws on a fresh
\* manager and as long as every initialize failed, and from the first
\* successful initialize on it returns the cached ids.
C24_GetPolicyIdsNeedsInitialize ==
    [][ /\ ~initialized => getPolicyIds = NotInitializedError
        /\ ( ~initialized /\ (initResult' = None \/ ~initResult'.success) )
           => getPolicyIds' = NotInitializedError
        /\ ( initResult' # None /\ initResult'.success )
           => getPolicyIds' = [threw |-> FALSE, value |-> initResult'.policyIds]
        /\ initialized
           => ( ~getPolicyIds.threw /\ ~getPolicyIds'.threw )
      ]_vars

\* The only initialize call of the manager failed after it had stored the
\* id of the policy it fetched, and getPolicyIds throws.
C24_Witness ==
    /\ pmPc = "idle"
    /\ initResult # None
    /\ ~initResult.success
    /\ policyIds # <<>>
    /\ posted = <<>>
    /\ getPolicyIds = NotInitializedError

\* ------------------------------------------------------------------------
\* Properties of the Telegram /transact conversation
\* ------------------------------------------------------------------------

\* The texts that read 'yes' once trimmed and put in lower case.
YesTexts == {TextYES, TextYesSpaced}

\* The step called sendTransaction: a handler of the update just received
\* is waiting for it.
Submits ==
    /\ updateId' = updateId + 1
    /\ \E task \in botTasks' :
          /\ task.kind = "sendTransaction"
          /\ task.update = updateId'

\* The entries of the other users and their timers are as before.
OthersUntouched(u) ==
    /\ \A v \in Users \ {u} : pendingConfirmations'[v] = pendingConfirmations[v]
    /\ SelectSeq(timers', LAMBDA t : t.userId # u)
          = SelectSeq(timers, LAMBDA t : t.userId # u)

\* The handlers the step suspended at an await.
NewTasks ==
    { task \in botTasks' : task.update = updateId' }

\* C25: a transaction is submitted only when the user who issued /transact
\* replies YES (in any case, with surrounding blanks) in the chat of the
\* prompt while the confirmation is pending; NO, other text, a message
\* without text, a command and any message of another user submit nothing,
\* and a message of another user leaves the pending confirmation as it is.
C25_OnlyTheIssuersYesSubmits ==
    [][ /\ updateId' = updateId
           => ( /\ lastSendTransaction' = lastSendTransaction
                /\ \A task \in botTasks' :
                      task.kind = "sendTransaction" => task \in botTasks )
        /\ updateId' # updateId
           => ( /\ updateId' = updateId + 1
                /\ Submits
                   => \E task \in NewTasks :
                         /\ task.kind = "sendTransaction"
                         /\ task.msg.text \in YesTexts
                         /\ pendingConfirmations[task.msg.from] # None
                         /\ pendingConfirmations[task.msg.from].chatId
                               = task.msg.chat
                         /\ task.walletId = WalletId(task.msg.from)
                         /\ lastSendTransaction'
                               = ConfirmedTransaction(task.walletId)
                         /\ pendingConfirmations'[task.msg.from] = None
                /\ ~Submits => lastSendTransaction' = lastSendTransaction
                /\ \A task \in NewTasks : OthersUntouched(task.msg.from)
                /\ NewTasks = {}
                   => ( /\ pendingConfirmations' = pendingConfirmations
                        /\ timers' = timers ) )
        /\ \A u \in Users : \A c \in ChatsOf(u), text \in YesTexts :
             ( /\ MessageReceivedOf(u, c, text)
               /\ pendingConfirmations[u] # None
               /\ pendingConfirmations[u].chatId = c )
             => Submits
      ]_vars

\* u1 was prompted in the group chat and answered ' yes ' there with the
\* third update the bot received: the transaction was submitted, the
\* confirmation is consumed and its timer cleared.
C25_Witness ==
    /\ lastSendTransaction = ConfirmedTransaction(WalletId("u1"))
    /\ pendingConfirmations["u1"] = None
    /\ timers = <<>>
    /\ updateId = 3
    /\ \E task \in botTasks :
          /\ task.kind = "sendTransaction"
          /\ task.msg = Msg("u1", GroupChat, TextYesSpaced)
          /\ task.update = updateId

\* The step is the callback of the oldest armed timer.
TimerFired ==
    /\ timers # <<>>
    /\ timers' = Tail(timers)
    /\ updateId' = updateId
    /\ botTasks' = botTasks

\* C26: when RESPONSE_TIMEOUT has passed since a prompt without a message
\* of the user in the chat of the prompt, the user's pending confirmation
\* is removed and the time-out notice has been sent to the chat; and a YES
\* submits no transaction once the timer of the confirmation has fired.
C26_TimeoutRemovesAndNotifies ==
    [][ /\ TimerFired
           => LET timer == Head(timers) IN
              /\ timer.delay = RESPONSE_TIMEOUT
              /\ ~transcript[timer.id].responded
                 => ( /\ pendingConfirmations'[timer.userId] = None
                      /\ transcript'[timer.id].noticed )
        /\ Submits
           => \A task \in NewTasks :
                 task.kind = "sendTransaction"
                 => ~transcript[pendingConfirmations[task.msg.from].timeoutId].fired
      ]_vars

\* ------------------------------------------------------------------------
\* Properties of UniswapV4Service.getPositions
\* ------------------------------------------------------------------------

\* C27: getPositions returns success=true whatever the chains do; a chain
\* whose query failed has exactly one {chainId, error} entry in chainErrors
\* and no position in the result, and every position read on a chain whose
\* query succeeded is in the result.
C27_FailingChainsAreReported ==
    methodResult # None
    => LET settled == methodResult.settled
           returned == methodResult.returned
           errors == IF returned.chainErrors = None THEN <<>>
                     ELSE returned.chainErrors.value
       IN
       /\ returned.success
       /\ \A i \in DOMAIN settled :
             /\ settled[i].status = "rejected"
                => ( /\ Cardinality({ k \in DOMAIN errors :
                                        errors[k].chainId = settled[i].chainId }) = 1
                     /\ \A k \in DOMAIN returned.positions :
                           returned.positions[k].chainId # settled[i].chainId )
             /\ settled[i].status = "fulfilled"
                => ( /\ \A k \in DOMAIN errors :
                           errors[k].chainId # settled[i].chainId
                     /\ Range(settled[i].value) \subseteq Range(returned.positions) )
       /\ Len(errors) = Cardinality({ i \in DOMAIN settled :
                                        settled[i].status = "rejected" })
       /\ returned.chainErrors # None => errors # <<>>

\* All chains were queried: the subgraph of chain 1 failed, chain 8453 gave
\* a position, and the result holds that position and the error of chain 1.
C27_Witness ==
    /\ methodResult # None
    /\ methodArgs.chainId = 0
    /\ Len(methodResult.settled) = 5
    /\ methodResult.settled[1].status = "rejected"
    /\ methodResult.settled[1].chainId = 1
    /\ methodResult.settled[4].status = "fulfilled"
    /\ methodResult.settled[4].chainId = 8453
    /\ methodResult.settled[4].value # <<>>
    /\ methodResult.returned.success
    /\ methodResult.returned.chainErrors # None
    /\ V4Position(8453, 1) \in Range(methodResult.returned.positions)

\* ------------------------------------------------------------------------
\* Properties of the order of the steps of discoverPool and mintPosition
\* ------------------------------------------------------------------------

\* The errors of a request rejected for what it asks.
ValidationRejections ==
    { "tickSpacing cannot be specified without fee",
      "token0 and token1 must be different addresses" }

\* The step ends a discoverPool call with a validation error.
RejectsForValidation ==
    /\ discoverPc' = "done"
    /\ discovery' # None
    /\ ~discovery'.success
    /\ discovery'.error[1] \in ValidationRejections
    /\ discoverPc # "done" \/ discovery' # discovery \/ params' # params

\* C28: a discoverPool request rejected for validation (tickSpacing
\* without fee, both tokens the same address) is rejected by the first
\* step of the call: no token-metadata read and no pool-state read was
\* issued for it, so no token info was fetched and no pool was probed.
C28_ValidationBeforeNetwork ==
    [][ RejectsForValidation
        => ( /\ discoverPc \in {"idle", "done"}
             /\ tokenInfoCache' = tokenInfoCache
             /\ viemClients' = viemClients
             /\ probes' = <<>>
             /\ reads' = <<>> ) ]_vars

\* An allowance read of the call is in flight or has returned.
AllowanceReadIssued ==
    \/ mintPc \in {"allowance0", "allowance1"}
    \/ mint # None /\ mint.allowances # <<>>

\* A balance check of the call found the wallet short of a leg.
SomeBalanceShort ==
    /\ mint # None
    /\ mint.balanceChecks # <<>>
    /\ Short(mint.balanceChecks[1]) \/ Short(mint.balanceChecks[2])

\* C29: mintPosition issues an allowance read only after the balance
\* checks of both legs returned and found both balances sufficient; a call
\* in which either balance is short ends with the insufficient-balance
\* error and issues no allowance read.
C29_BalancesBeforeAllowances ==
    /\ AllowanceReadIssued
       => ( /\ mint # None
            /\ Len(mint.balanceChecks) = 2
            /\ ~Short(mint.balanceChecks[1])
            /\ ~Short(mint.balanceChecks[2]) )
    /\ SomeBalanceShort
       => ( /\ ~AllowanceReadIssued
            /\ mintPc = "done"
            /\ mintResult # None
            /\ ~mintResult.success
            /\ mintResult.error.kind = "Insufficient balance" )

\* The wallet holds enough of the pool's currency0 and too little of its
\* currency1, a token: the call ended without an allowance read.
C29_Witness ==
    /\ mint # None
    /\ mint.balanceChecks # <<>>
    /\ ~Short(mint.balanceChecks[1])
    /\ Short(mint.balanceChecks[2])
    /\ mint.pool.poolKey.currency0 # NATIVE_ETH_ADDRESS
    /\ mint.allowances = <<>>
    /\ mintPc = "done"
    /\ mintResult # None
    /\ mintResult.error.kind = "Insufficient balance"

\* The step compares the allowance of a leg with the amount it requires.
AllowanceCompared ==
    /\ mint # None
    /\ mint' # None
    /\ Len(mint'.allowances) > Len(mint.allowances)

\* C30: in mintPosition the allowance of a leg is compared only once the
\* position has been assembled, and the amount it is compared with is the
\* amount of that leg in the assembled position.
C30_AllowanceAgainstAssembledPosition ==
    [][ AllowanceCompared
        => LET check == mint'.allowances[Len(mint'.allowances)]
           IN  /\ mint.position # None
               /\ check.required =
                     IF check.token = mint.position.poolKey.currency0
                     THEN mint.position.amount0
                     ELSE mint.position.amount1 ]_vars

\* ------------------------------------------------------------------------
\* Properties of getTokenInfo
\* ------------------------------------------------------------------------

\* Calls i and j looked up the same token on the same chain, in whatever
\* letter case.
SameLookup(i, j) ==
    /\ methodArgs[i].chainId = methodArgs[j].chainId
    /\ methodArgs[i].tokenAddress.hex = methodArgs[j].tokenAddress.hex

\* An earlier call looked the token of call j up on its chain and succeeded.
LookedUpBefore(j) ==
    \E i \in 1..(j - 1) : SameLookup(i, j) /\ methodResult[i].ok

\* C31: after one successful lookup of a token on a chain, every later
\* lookup of that token on that chain, in any letter case, returns the same
\* symbol and decimals whatever the chain would answer to a read (no read
\* is issued); a lookup of a token not yet looked up on that chain depends
\* on the chain's answer, also when another chain has the token cached.
C31_TokenInfoMemoizedPerChain ==
    \A j \in 1..Len(methodResult) :
        /\ \A i \in 1..(j - 1) :
             ( SameLookup(i, j) /\ methodResult[i].ok )
             => ( /\ methodResult[j].ok
                  /\ methodResult[j].symbol = methodResult[i].symbol
                  /\ methodResult[j].decimals = methodResult[i].decimals )
        /\ ( ~LookedUpBefore(j) /\ methodArgs[j].outcome # "answers" )
             => ~methodResult[j].ok
        /\ methodResult[j].ok
             => <<methodArgs[j].chainId,
                  toLowerCase(methodArgs[j].tokenAddress)>> \in tokenInfoCache

\* USDC was read on chain 1; the same address in checksum writing is then
\* served from the cache although the chain would time out, and on chain
\* 8453 the same address is read again and the read fails.
C31_Witness ==
    /\ Len(methodResult) = 3
    /\ methodArgs[1] = [ tokenAddress |-> Addr(USDC, "lower"), chainId |-> 1,
                         outcome |-> "answers" ]
    /\ methodArgs[2] = [ tokenAddress |-> Addr(USDC, "checksum"), chainId |-> 1,
                         outcome |-> "timeout" ]
    /\ methodArgs[3] = [ tokenAddress |-> Addr(USDC, "lower"), chainId |-> 8453,
                         outcome |-> "timeout" ]
    /\ methodResult[1] = [ok |-> TRUE, symbol |-> "USDC", decimals |-> 6]
    /\ methodResult[2] = methodResult[1]
    /\ ~methodResult[3].ok
    /\ tokenInfoCache = {<<1, Addr(USDC, "lower")>>}
    /\ viemClients = {1, 8453}

\* The failures that say the address is no token contract.
ContractFailures == {"reverted", "invalid opcode", "not a contract"}

\* C32: a token-metadata read that fails with a revert, an invalid opcode
\* or at an address that is not a contract is reported as "Invalid token
\* address", every other failure (timeout, malformed response) as "Failed
\* to fetch token info", and a failed lookup caches nothing: the cache
\* holds the lookups that succeeded and no others.
C32_RevertAndNetworkErrorsDiffer ==
    /\ \A j \in 1..Len(methodResult) :
         ~methodResult[j].ok
         => /\ methodArgs[j].outcome \in TokenReadFailures
            /\ methodArgs[j].outcome \in ContractFailures
                 <=> methodResult[j].error = "Invalid token address"
            /\ methodArgs[j].outcome \notin ContractFailures
                 <=> methodResult[j].error = "Failed to fetch token info"
            /\ ~LookedUpBefore(j)
    /\ tokenInfoCache =
         { <<methodArgs[j].chainId, toLowerCase(methodArgs[j].tokenAddress)>> :
             j \in { k \in 1..Len(methodResult) : methodResult[k].ok } }

\* A lookup of USDC at an address the chain says is not a contract, then
\* one that gets a malformed response: two different errors, nothing
\* cached.
C32_Witness ==
    /\ Len(methodResult) = 2
    /\ methodArgs[1].outcome = "not a contract"
    /\ methodArgs[2].outcome = "malformed"
    /\ SameLookup(1, 2)
    /\ methodResult[1] = [ok |-> FALSE, error |-> "Invalid token address"]
    /\ methodResult[2] = [ok |-> FALSE, error |-> "Failed to fetch token info"]
    /\ tokenInfoCache = {}

\* ------------------------------------------------------------------------
\* Properties of the submissions of approveToken and mintPosition
\* ------------------------------------------------------------------------

\* The step handed a transaction to the custody.
SubmittedNow ==
    \/ lastSendTransaction' # lastSendTransaction
    \/ sendTransactionCalls' # sendTransactionCalls

C34_IdsOfValidatedPolicyOnly ==
    ( /\ pmPc = "idle"
      /\ fetched # None
      /\ validatePolicy(fetched) # Ok )
    => \/ getPolicyIds.threw
       \/ \A i \in 1..Len(getPolicyIds.value) :
             getPolicyIds.value[i] # fetched.id

\* ------------------------------------------------------------------------
\* Properties of the chain configurations against the policy
\* ------------------------------------------------------------------------

\* C35: for every supported chain id, the position manager that
\* mintPosition sends its transaction to is an address of the policy's
\* contract allowlist, and so is the recipient of every mint submitted.
C35_PositionManagersAllowlisted ==
    /\ \A chainId \in DOMAIN V4_CHAIN_CONFIGS :
         InContractAllowlist(V4_CHAIN_CONFIGS[chainId].positionManagerAddress)
    /\ ( /\ lastSendTransaction # NoCall
         /\ "functionName" \in DOMAIN lastSendTransaction.data
         /\ lastSendTransaction.data.functionName = "modifyLiquidities" )
       => InContractAllowlist(lastSendTransaction.to)

\* ------------------------------------------------------------------------
\* Properties of the pending confirmations of the Telegram bot
\* ------------------------------------------------------------------------

\* The timeout of the confirmation pending for u is armed.
TimeoutArmed(u) ==
    \E i \in 1..Len(timers) : timers[i].id = pendingConfirmations[u].timeoutId

\* C36: every pending confirmation is removed by a text reply or by its
\* timeout: as long as a confirmation is pending its 60-second timeout is
\* armed and will remove it, so that a reply after the timeout finds no
\* confirmation and submits nothing.
C36_PendingConfirmationExpires ==
    \A u \in Users :
        pendingConfirmations[u] # None
        => ( /\ TimeoutArmed(u)
             /\ ~pendingConfirmations[u].responseReceived )

\* C37: a transaction is submitted only for a user who has a session at
\* the moment of submission: the reply that makes the listener call
\* sendTransaction comes from a user whose session is stored.
C37_NoSessionNoSubmission ==
    [][ Submits
        => \A task \in botTasks' :
             ( task.kind = "sendTransaction" /\ task.update = updateId' )
             => botSessions'[task.msg.from] # NoSession ]_vars

\* C38: a /transact request is resolved at most once: no request has both
\* been answered with the time-out notice (by its own timer, or by losing
\* its confirmation to a timer) and had a reply handled by the listener,
\* and the listener submits a transaction only for the confirmation whose
\* reply it handles in the same step, which no timer has touched.
C38_ResolvedAtMostOnce ==
    [][ /\ \A i \in DOMAIN transcript' :
              ~(transcript'[i].timedOut /\ transcript'[i].replied)
        /\ Submits
           => \A task \in NewTasks :
                 task.kind = "sendTransaction"
                 => LET pending == pendingConfirmations[task.msg.from] IN
                    /\ pending # None
                    /\ ~transcript[pending.timeoutId].timedOut
                    /\ transcript'[pending.timeoutId].replied
                    /\ pendingConfirmations'[task.msg.from] = None
                    /\ \A k \in DOMAIN timers' :
                          timers'[k].id # pending.timeoutId
      ]_vars

\* A reply was handled for one request of a user and another request of
\* the same user ran into its time-out.
C38_Witness ==
    \E i, j \in DOMAIN transcript :
        /\ transcript[i].userId = transcript[j].userId
        /\ transcript[i].replied
        /\ transcript[j].timedOut
        /\ lastSendTransaction # NoCall

\* The armed timers of user u.
LiveTimers(u) ==
    { k \in DOMAIN timers : timers[k].userId = u }

\* C39: a user has at most one pending confirmation and at most one armed
\* timer at any time, and the confirmation holds the id of that timer; the
\* callback of a timer removes no confirmation but the one it was armed
\* for.
C39_OneConfirmationOneTimer ==
    [][ /\ \A u \in Users : Cardinality(LiveTimers(u)) <= 1
        /\ TimerFired
           => LET timer == Head(timers)
                  pending == pendingConfirmations[timer.userId]
              IN ( pending # None
                   /\ pendingConfirmations'[timer.userId] = None )
                 => pending.timeoutId = timer.id
      ]_vars

\* C40: discoverPool, approveToken and mintPosition return a result
\* whatever the reads and the custody did: a finished call has a result
\* with success true or false, a failure carries an error, and an approval
\* or a mint has success=true only with the transaction hash the custody
\* returned for the call the request made.
C40_FailuresAreReturned ==
    /\ discoverPc = "done"
       => ( /\ discovery # None
            /\ discovery.success \in BOOLEAN
            /\ ~discovery.success => discovery.error # <<>> )
    /\ mintPc = "done"
       => ( /\ mintResult # None
            /\ mintResult.success \in BOOLEAN
            /\ ~mintResult.success => mintResult.error.kind # ""
            /\ mintResult.success
               => ( /\ mintResult.txHash # <<>>
                    /\ mint.submitted
                    /\ lastSendTransaction # NoCall ) )
    /\ response.op = "approveToken"
       => ( /\ response.success \in BOOLEAN
            /\ ~response.success => response.error # ""
            /\ response.success
               => ( /\ response.txHash # <<>>
                    /\ lastSendTransaction # NoCall ) )

\* An approval returned the hash, and the mint after it returned the
\* custody's error as a failure.
C40_Witness ==
    /\ response.op = "approveToken"
    /\ response.success
    /\ response.txHash # <<>>
    /\ mintPc = "done"
    /\ mint.submitted
    /\ ~mintResult.success
    /\ mintResult.error.kind = "TRANSACTION_FAILED"

====
